---- MODULE Spec2Model ----
(***************************************************************************)
(* masm: a two-pass assembler for a 20-bit-word register machine.          *)
(*                                                                         *)
(* The module models the lexer (src/src/lexer.rs), the parser              *)
(* (src/src/parser.rs), the intermediate representation (src/src/ir.rs)    *)
(* and the code generator (src/src/generator.rs).                          *)
(*                                                                         *)
(*   Spec     the pipeline: a bounded token stream is scanned by the       *)
(*            parser, one loop iteration per step, and the resulting IR    *)
(*            is handed to the generator.                                  *)
(*   SpecEnc  the generator's loop body applied to one instruction after   *)
(*            another with the same reused word buffer, the inputs drawn   *)
(*            from bounded sets.                                           *)
(*   SpecLex  the lexer reading a bounded source file line by line.        *)
(*   SpecOperands  the pipeline on short streams over a token alphabet     *)
(*            with many operand spellings.                                 *)
(*   SpecMain main(): a bounded source file is lexed, the tokens are       *)
(*            parsed, and the IR is handed to the generator.               *)
(***************************************************************************)
EXTENDS Integers, Sequences, FiniteSets, TLC

VARIABLES
    overflow_checks,          \* the build: TRUE = debug (u16 overflow panics), FALSE = release (wraps)
    keywords,                 \* parser input: the token sequence
    pos,                      \* number of tokens the parser's iterator has yielded
    pstate,                   \* "start" | "scan" | "ok" | "err"
    perror,                   \* the ParserError returned, "none" while there is none
    start_label,              \* LabelDefinition
    last_label,               \* LabelDefinition
    instructions_since_label, \* u16 counter
    known_labels,             \* LabelLUT: name -> LabelDefinition
    parsed,                   \* HashMap<LabelReference, Vec<Instruction>>: name -> sequence
    gen,                      \* what generator() gave: "none", Ok(binary), Err(UndefinedLabel), panic
    enc_instr,                \* SpecEnc: the instruction of the current loop iteration
    enc_label,                \* SpecEnc: the LabelDefinition the iteration runs under
    enc_idx,                  \* SpecEnc: the index of the instruction in its label's list
    enc_defs,                 \* SpecEnc: the label table
    enc_prev,                 \* SpecEnc: the instruction encoded just before
    enc_pc,                   \* SpecEnc: "idle" | "prev" | "cur" | "done"
    instruction_word,         \* SpecEnc: the reused InstructionWord buffer
    enc_out,                  \* SpecEnc: outcome of the iteration for enc_instr
    lines,                    \* SpecLex: the lines of the source file, each a sequence of characters
    lexer_pc,                 \* SpecLex: "idle" | "open" | "lines" | "done"
    line_number,              \* SpecLex: lines read so far
    lexed,                    \* SpecLex: Vec<Keyword>
    keyword_buffer,           \* SpecLex: Vec<Keyword>, the buffer handed to lex_line
    errors,                   \* SpecLex: Vec<LexerError>
    lexer_out                 \* SpecLex: what lexer() returned

vars == <<overflow_checks, keywords, pos, pstate, perror, start_label, last_label,
          instructions_since_label, known_labels, parsed, gen,
          enc_instr, enc_label, enc_idx, enc_defs, enc_prev, enc_pc,
          instruction_word, enc_out,
          lines, lexer_pc, line_number, lexed, keyword_buffer, errors, lexer_out>>

parser_vars == <<keywords, pos, pstate, perror, start_label, last_label,
                 instructions_since_label, known_labels, parsed, gen>>

enc_vars == <<enc_instr, enc_label, enc_idx, enc_defs, enc_prev, enc_pc,
              instruction_word, enc_out>>

lexer_vars == <<lines, lexer_pc, line_number, lexed, keyword_buffer, errors, lexer_out>>

(***************************************************************************)
(* Bounds of the model.                                                    *)
(***************************************************************************)
MaxTokens == 5
MaxConst == 20
MaxAddr == 12
MaxIdx == 3
MaxLines == 3
MaxDigits == 5
MaxOperands == 2

(***************************************************************************)
(* Machine integers.                                                       *)
(***************************************************************************)
U16 == 65536

\* faulty variant of wrapping_sub: the difference saturates at 0 instead of wrapping
wrapping_sub_saturating(a, b) == IF a >= b THEN a - b ELSE 0

\* u16::wrapping_sub
wrapping_sub(a, b) == (a - b) % U16

\* u16 `a + b` / `a - b`: the debug build panics on overflow, the release build wraps.
\* The result is a record; "panic" says the thread panicked.
checked(v, oc) ==
    IF v >= 0 /\ v < U16 THEN [panic |-> FALSE, value |-> v]
    ELSE IF oc THEN [panic |-> TRUE, value |-> 0]
    ELSE [panic |-> FALSE, value |-> v % U16]

(***************************************************************************)
(* ir.rs: the data model.                                                  *)
(***************************************************************************)
Registers == 0..7

JumpConditions == {"True", "Zero", "NotZero", "Less", "Overflow"}

LabelDefinition(name, address) == [name |-> name, address |-> address]

UnaryExpression(target, source_a) == [target |-> target, source_a |-> source_a]

BinaryStatement(source_a, source_b) == [source_a |-> source_a, source_b |-> source_b]

BinaryExpression(target, source_a, source_b) ==
    [target |-> target, source_a |-> source_a, source_b |-> source_b]

TernaryExpression(target, source_a, source_b, source_c) ==
    [target |-> target, source_a |-> source_a, source_b |-> source_b, source_c |-> source_c]

\* Instruction: the variant is `op`; a tuple variant carries its payload in `e`.
Instr1(op, e) == [op |-> op, e |-> e]

Halt == [op |-> "Halt"]
Noop == [op |-> "Noop"]
Debug == [op |-> "Debug"]
Set32BitMode(enable) == [op |-> "Set32BitMode", enable |-> enable]
\* faulty variant of StoreRAM: the two registers are exchanged
StoreRAM_exchanged(address_register, data_register) ==
    [op |-> "StoreRAM", address_register |-> data_register, data_register |-> address_register]

StoreRAM(address_register, data_register) ==
    [op |-> "StoreRAM", address_register |-> address_register, data_register |-> data_register]
Load(address, source) == [op |-> "Load", address |-> address, source |-> source]
Jump(target, condition) == [op |-> "Jump", target |-> target, condition |-> condition]

LoadConstant(c) == [kind |-> "Constant", value |-> c]
LoadRAM(address_register) == [kind |-> "RAM", address_register |-> address_register]
LoadPgm == [kind |-> "Pgm"]

JumpConstant(c) == [kind |-> "Constant", value |-> c]
JumpRegister(r) == [kind |-> "Register", reg |-> r]
JumpLabel(name) == [kind |-> "Label", name |-> name]

UnaryOps == {"Move", "NOT", "Negate", "Increment", "Decrement"}
BinaryOps == {"Add", "AddWithCarry", "Subtract", "SubtractWithCarry", "Multiply",
              "AND", "OR", "XOR", "XNOR", "ShiftLeft", "ShiftRight"}

(***************************************************************************)
(* lexer.rs: Keyword, the tokens.  The line number, which only the         *)
(* diagnostics read, is left out.  A name is a String; of a register name  *)
(* the token also holds the characters, because the parser looks into it.  *)
(***************************************************************************)
\* the String of a sequence of characters
RECURSIVE Join(_)
Join(chars) == IF chars = <<>> THEN "" ELSE Head(chars) \o Join(Tail(chars))

K_Mmenonic(name) == [kind |-> "Mmenonic", name |-> name]

\* `name` is given as its characters
K_RegisterAddress(name) ==
    [kind |-> "RegisterAddress", name |-> Join(name), chars |-> name]

K_Constant(origin, value) == [kind |-> "Constant", origin |-> origin, value |-> value]
K_Boolean(value) == [kind |-> "Boolean", value |-> value]
K_Label(name) == [kind |-> "Label", name |-> name]

(***************************************************************************)
(* lexer.rs: characters and strings.  A line and a word are sequences of   *)
(* one-character strings; a name kept in a token is the string they spell. *)
(***************************************************************************)
\* char::is_whitespace, for the characters a line of the model can hold
Whitespace == {" ", "\t"}

\* char::is_ascii_digit
AsciiDigits == {"0", "1", "2", "3", "4", "5", "6", "7", "8", "9"}

LowerCase == <<"a", "b", "c", "d", "e", "f", "g", "h", "i", "j", "k", "l", "m",
               "n", "o", "p", "q", "r", "s", "t", "u", "v", "w", "x", "y", "z">>

UpperCase == <<"A", "B", "C", "D", "E", "F", "G", "H", "I", "J", "K", "L", "M",
               "N", "O", "P", "Q", "R", "S", "T", "U", "V", "W", "X", "Y", "Z">>

DecimalDigits == <<"0", "1", "2", "3", "4", "5", "6", "7", "8", "9">>

InSeq(seq, ch) == \E i \in 1..Len(seq) : seq[i] = ch

\* the position of a character in a sequence that holds it
IndexIn(seq, ch) == CHOOSE i \in 1..Len(seq) : seq[i] = ch

\* char::is_ascii_alphanumeric
is_ascii_alphanumeric(c) == c \in AsciiDigits \/ InSeq(LowerCase, c) \/ InSeq(UpperCase, c)

\* Option::None of a number
None == -1

\* char::to_digit(radix): the digit's value, None when the character is no digit of the radix
to_digit(c, radix) ==
    LET value == IF InSeq(DecimalDigits, c) THEN IndexIn(DecimalDigits, c) - 1
                 ELSE IF InSeq(LowerCase, c) THEN IndexIn(LowerCase, c) + 9
                 ELSE IF InSeq(UpperCase, c) THEN IndexIn(UpperCase, c) + 9
                 ELSE None
    IN IF value # None /\ value < radix THEN value ELSE None

\* the digit loop of u16::from_str_radix: an invalid digit and an overflow of u16 are errors
RECURSIVE parse_digits(_, _, _)
parse_digits(digits, radix, acc) ==
    IF digits = <<>> THEN acc
    ELSE LET d == to_digit(Head(digits), radix)
         IN IF d = None THEN None
            ELSE IF acc * radix + d >= U16 THEN None
            ELSE parse_digits(Tail(digits), radix, acc * radix + d)

\* u16::from_str_radix(src, radix).ok(): a leading '+' is allowed, a '-' is not;
\* the empty string and a lone sign are errors
from_str_radix(src, radix) ==
    LET digits == IF src # <<>> /\ Head(src) = "+" THEN Tail(src) ELSE src
    IN IF digits = <<>> THEN None ELSE parse_digits(digits, radix, 0)

\* u16::wrapping_neg
wrapping_neg(num) == (U16 - num) % U16

starts_with(str, prefix) ==
    Len(str) >= Len(prefix) /\ SubSeq(str, 1, Len(prefix)) = prefix

\* str::strip_prefix(prefix).unwrap(), where starts_with holds
strip_prefix(str, prefix) == SubSeq(str, Len(prefix) + 1, Len(str))

RECURSIVE trim_end(_)
trim_end(str) ==
    IF str # <<>> /\ str[Len(str)] \in Whitespace THEN trim_end(SubSeq(str, 1, Len(str) - 1))
    ELSE str

RECURSIVE trim_start(_)
trim_start(str) ==
    IF str # <<>> /\ Head(str) \in Whitespace THEN trim_start(Tail(str)) ELSE str

\* `if let Some(semi_idx) = line.find(';') { line.truncate(semi_idx) }`
RECURSIVE truncate_at_semicolon(_)
truncate_at_semicolon(str) ==
    IF str = <<>> \/ Head(str) = ";" THEN <<>>
    ELSE <<Head(str)>> \o truncate_at_semicolon(Tail(str))

\* str::split_whitespace().collect(): `word` is the word being read
RECURSIVE split_whitespace(_, _)
split_whitespace(str, word) ==
    IF str = <<>> THEN (IF word = <<>> THEN <<>> ELSE <<word>>)
    ELSE IF Head(str) \in Whitespace
    THEN (IF word = <<>> THEN <<>> ELSE <<word>>) \o split_whitespace(Tail(str), <<>>)
    ELSE split_whitespace(Tail(str), Append(word, Head(str)))

(***************************************************************************)
(* lexer.rs: word_type, lex_line and lexer().                              *)
(***************************************************************************)
LexerError(kind, actual) == [kind |-> kind, actual |-> actual]

NoLexerError == LexerError("none", "")

\* Result<Keyword, LexerError> of word_type
WordOk(keyword) == [ok |-> TRUE, keyword |-> keyword, err |-> NoLexerError]

WordErr(err) == [ok |-> FALSE, keyword |-> K_Label(""), err |-> err]

\* the chain of prefix tests of word_type: the digits, the radix and the sign
\* of a word that may be a constant; radix 0 stands for None
constant_candidate(word) ==
    IF starts_with(word, <<"-", "0", "x">>)
    THEN [digits |-> strip_prefix(word, <<"-", "0", "x">>), radix |-> 16, sign |-> TRUE]
    ELSE IF starts_with(word, <<"0", "x">>)
    THEN [digits |-> strip_prefix(word, <<"0", "x">>), radix |-> 16, sign |-> FALSE]
    ELSE IF starts_with(word, <<"-", "0", "b">>)
    THEN [digits |-> strip_prefix(word, <<"-", "0", "b">>), radix |-> 2, sign |-> TRUE]
    ELSE IF starts_with(word, <<"0", "b">>)
    THEN [digits |-> strip_prefix(word, <<"0", "b">>), radix |-> 2, sign |-> FALSE]
    ELSE IF word # <<>> /\ Head(word) \in AsciiDigits
    THEN [digits |-> word, radix |-> 10, sign |-> FALSE]
    ELSE IF starts_with(word, <<"-">>) /\ Len(word) >= 2 /\ word[2] \in AsciiDigits
    THEN [digits |-> strip_prefix(word, <<"-">>), radix |-> 10, sign |-> TRUE]
    ELSE [digits |-> <<>>, radix |-> 0, sign |-> FALSE]

\* `.and_then(|(word, radix, sign)| u16::from_str_radix(word, radix).map(..).ok())`
constant_value(word) ==
    LET c == constant_candidate(word)
        num == IF c.radix = 0 THEN None ELSE from_str_radix(c.digits, c.radix)
    IN IF num = None THEN None
       ELSE IF c.sign THEN wrapping_neg(num) ELSE num

word_type(word) ==
    IF starts_with(word, <<"%">>)
    THEN WordOk(K_RegisterAddress(strip_prefix(word, <<"%">>)))
    ELSE IF constant_value(word) # None
    THEN WordOk(K_Constant(Join(word), constant_value(word)))
    ELSE IF \A i \in 1..Len(word) : is_ascii_alphanumeric(word[i])
    THEN WordOk(K_Label(Join(word)))
    ELSE WordErr(LexerError("InvalidIdentifier", Join(word)))

\* Result<(), LexerError> of lex_line, with the buffer as lex_line leaves it
LineOk(buffer) == [ok |-> TRUE, buffer |-> buffer, err |-> NoLexerError]

LineErr(buffer, err) == [ok |-> FALSE, buffer |-> buffer, err |-> err]

\* `while let Some(word) = args.pop_front() { match word_type(word, ..) {..} }`
RECURSIVE lex_args(_, _)
lex_args(buffer, args) ==
    IF args = <<>> THEN LineOk(buffer)
    ELSE LET keyword == word_type(Head(args))
         IN IF ~keyword.ok THEN LineErr(buffer, keyword.err)
            ELSE IF keyword.keyword.kind = "Mmenonic"
            THEN LineErr(buffer, LexerError("CommandAfterCommand", keyword.keyword.name))
            ELSE lex_args(Append(buffer, keyword.keyword), Tail(args))

\* `if let Some(label) = line.strip_suffix(':') { keywords.push(Label) }; Ok(())`
lex_label(buffer, line) ==
    IF line # <<>> /\ line[Len(line)] = ":"
    THEN LineOk(Append(buffer, K_Label(Join(SubSeq(line, 1, Len(line) - 1)))))
    ELSE LineOk(buffer)

\* lex_line(keywords, line, line_number): `buffer` is the vector `keywords`
lex_line(buffer, line) ==
    LET trimmed == trim_end(line)
    IN IF trimmed # <<>> /\ Head(trimmed) \in {" ", "\t"}
       THEN LET instruction == truncate_at_semicolon(trim_start(trimmed))
                args == split_whitespace(instruction, <<>>)
            IN IF args = <<>> THEN LineOk(buffer)
               ELSE LET r == lex_args(Append(buffer, K_Mmenonic(Join(Head(args)))),
                                      Tail(args))
                    IN IF r.ok THEN lex_label(r.buffer, instruction) ELSE r
       ELSE lex_label(buffer, trimmed)

\* Result<Vec<Keyword>, Vec<LexerError>> of lexer()
NoLexed == [kind |-> "none", lexed |-> <<>>, errors |-> <<>>]

LexerOk(tokens) == [kind |-> "Ok", lexed |-> tokens, errors |-> <<>>]

LexerErr(errs) == [kind |-> "Err", lexed |-> <<>>, errors |-> errs]

LexerIdle ==
    /\ lines = <<>>
    /\ lexer_pc = "idle"
    /\ line_number = 0
    /\ lexed = <<>>
    /\ keyword_buffer = <<>>
    /\ errors = <<>>
    /\ lexer_out = NoLexed

\* File::open(path) succeeds
LexerOpen ==
    /\ lexer_pc = "open"
    /\ lexer_pc' = "lines"
    /\ UNCHANGED <<lines, line_number, lexed, keyword_buffer, errors, lexer_out,
                   overflow_checks, parser_vars, enc_vars>>

\* File::open(path) fails: `.map_err(|io_err| vec![LexerError::IoError(io_err)])?`
LexerOpenFails ==
    /\ lexer_pc = "open"
    /\ lexer_pc' = "done"
    /\ lexer_out' = LexerErr(<<LexerError("IoError", "")>>)
    /\ UNCHANGED <<lines, line_number, lexed, keyword_buffer, errors,
                   overflow_checks, parser_vars, enc_vars>>

\* one iteration of `for line in reader.lines()`, the line read without error
LexerLine ==
    /\ lexer_pc = "lines"
    /\ line_number < Len(lines)
    /\ LET r == lex_line(keyword_buffer, lines[line_number + 1])
       IN IF r.ok
          THEN /\ lexed' = lexed \o r.buffer
               /\ keyword_buffer' = <<>>
               /\ UNCHANGED errors
          ELSE /\ errors' = Append(errors, r.err)
               /\ keyword_buffer' = r.buffer
               /\ UNCHANGED lexed
    /\ line_number' = line_number + 1
    /\ UNCHANGED <<lines, lexer_pc, lexer_out, overflow_checks, parser_vars, enc_vars>>

\* one iteration of `for line in reader.lines()`, the read fails:
\* `errors.push(LexerError::IoError(io_err)); return Err(errors)`
LexerLineIoError ==
    /\ lexer_pc = "lines"
    /\ line_number < Len(lines)
    /\ errors' = Append(errors, LexerError("IoError", ""))
    /\ lexer_out' = LexerErr(errors')
    /\ lexer_pc' = "done"
    /\ UNCHANGED <<lines, line_number, lexed, keyword_buffer,
                   overflow_checks, parser_vars, enc_vars>>

\* after the loop: the closing hlt, and `Ok(lexed)`
LexerEnd ==
    /\ lexer_pc = "lines"
    /\ line_number >= Len(lines)
    /\ LET hlt == K_Mmenonic("hlt")
       IN lexed' = IF lexed # <<>> /\ lexed[Len(lexed)] # hlt THEN Append(lexed, hlt)
                   ELSE lexed
    /\ lexer_out' = LexerOk(lexed')
    /\ lexer_pc' = "done"
    /\ UNCHANGED <<lines, line_number, keyword_buffer, errors,
                   overflow_checks, parser_vars, enc_vars>>

(***************************************************************************)
(* parser.rs: the operand parsers.  Each takes the token sequence and the  *)
(* number `p` of tokens the iterator has yielded so far, and gives         *)
(* [ok, value, pos] or [ok = FALSE, err, pos].                             *)
(***************************************************************************)
ParserError(kind, command, arg_name) ==
    [kind |-> kind, command |-> command, arg_name |-> arg_name]

NoError == ParserError("none", "", "")

Ok(value, p) == [ok |-> TRUE, value |-> value, pos |-> p, err |-> NoError]

Err(err, p) == [ok |-> FALSE, value |-> 0, pos |-> p, err |-> err]

\* `'0'..='7' => char.to_digit(8)`, `'A'..='H' => char - 'A'`
RegisterDigits == <<"0", "1", "2", "3", "4", "5", "6", "7">>
\* faulty variant of RegisterLetters: the letters are counted from B
RegisterLetters_from_B == <<"B", "C", "D", "E", "F", "G", "H", "I">>

RegisterLetters == <<"A", "B", "C", "D", "E", "F", "G", "H">>

\* try_parse_register: the value is the RegisterAddress
try_parse_register(keyword, p) ==
    IF keyword.kind = "RegisterAddress"
    THEN LET name == keyword.chars
         IN IF Len(name) >= 3 /\ SubSeq(name, 1, 3) = <<"r", "e", "g">>
            THEN IF Len(name) = 3
                 THEN Err(ParserError("ExpectedFound", "", ""), p)
                 ELSE LET char == name[4]
                      IN IF \E i \in 1..8 : RegisterDigits[i] = char
                         THEN Ok(IndexIn(RegisterDigits, char) - 1, p)
                         ELSE IF \E i \in 1..8 : RegisterLetters[i] = char
                         THEN Ok(IndexIn(RegisterLetters, char) - 1, p)
                         ELSE Err(ParserError("ExpectedFound", "", ""), p)
            ELSE Err(ParserError("ExpectedFound", "", ""), p)
    ELSE Err(ParserError("ExpectedFound", "", ""), p)

try_parse_bool(keyword, p) ==
    IF keyword.kind = "Boolean" THEN Ok(keyword.value, p)
    ELSE Err(ParserError("ExpectedFound", "", ""), p)

try_parse_constant(keyword, p) ==
    IF keyword.kind = "Constant" THEN Ok(keyword.value, p)
    ELSE Err(ParserError("ExpectedFound", "", ""), p)

\* faulty variant of try_parse_label_definition: the instructions since the last
\* label are not counted
try_parse_label_definition_uncounted(keyword, last_label_address, n_since_label) ==
    IF keyword.kind = "Label"
    THEN Ok(LabelDefinition(keyword.name, last_label_address), 0)
    ELSE Err(ParserError("ExpectedFound", "", ""), 0)

\* try_parse_label_definition: the sum is a u16 sum; it stays below 2^16
\* for every stream of the model
try_parse_label_definition(keyword, last_label_address, n_since_label) ==
    IF keyword.kind = "Label"
    THEN Ok(LabelDefinition(keyword.name, last_label_address + n_since_label), 0)
    ELSE Err(ParserError("ExpectedFound", "", ""), 0)

\* faulty variant of try_parse_label_reference: no token is taken as a label name
try_parse_label_reference_never(keyword, p) == Err(ParserError("ExpectedFound", "", ""), p)

try_parse_label_reference(keyword, p) ==
    IF keyword.kind = "Label" THEN Ok(keyword.name, p)
    ELSE Err(ParserError("ExpectedFound", "", ""), p)

\* the nested `if let Some(..) = keywords.next() { try_parse_register(..)? ..} else
\* { Err(MissingArgument) }` of the expression and statement parsers: one
\* register per argument name, in order; the value is the sequence of addresses
RECURSIVE parse_registers(_, _, _, _, _)
parse_registers(instruction, kws, p, arg_names, acc) ==
    IF arg_names = <<>> THEN Ok(acc, p)
    ELSE IF p >= Len(kws)
    THEN Err(ParserError("MissingArgument", instruction, Head(arg_names)), p)
    ELSE LET r == try_parse_register(kws[p + 1], p + 1)
         IN IF r.ok
            THEN parse_registers(instruction, kws, p + 1, Tail(arg_names), Append(acc, r.value))
            ELSE r

try_parse_unary_expression(instruction, kws, p) ==
    LET r == parse_registers(instruction, kws, p, <<"TargetRegister", "SourceRegister">>, <<>>)
    IN IF r.ok THEN Ok(UnaryExpression(r.value[1], r.value[2]), r.pos) ELSE r

\* the value is the UnaryStatement's source_a
try_parse_unary_statement(instruction, kws, p) ==
    LET r == parse_registers(instruction, kws, p, <<"SourceRegister">>, <<>>)
    IN IF r.ok THEN Ok(r.value[1], r.pos) ELSE r

try_parse_binary_expression(instruction, kws, p) ==
    LET r == parse_registers(instruction, kws, p,
                             <<"TargetRegister", "SourceRegisterA", "SourceRegisterB">>, <<>>)
    IN IF r.ok THEN Ok(BinaryExpression(r.value[1], r.value[2], r.value[3]), r.pos) ELSE r

try_parse_binary_statement(instruction, kws, p) ==
    LET r == parse_registers(instruction, kws, p, <<"SourceRegisterA", "SourceRegisterB">>, <<>>)
    IN IF r.ok THEN Ok(BinaryStatement(r.value[1], r.value[2]), r.pos) ELSE r

try_parse_ternary_expression(instruction, kws, p) ==
    LET r == parse_registers(instruction, kws, p,
                 <<"TargetRegister", "SourceRegisterA", "SourceRegisterB", "SourceRegisterC">>,
                 <<>>)
    IN IF r.ok
       THEN Ok(TernaryExpression(r.value[1], r.value[2], r.value[3], r.value[4]), r.pos)
       ELSE r

try_parse_ldc(kws, p) ==
    IF p >= Len(kws) THEN Err(ParserError("MissingArgument", "ldc", "TargetRegister"), p)
    ELSE LET target_register == try_parse_register(kws[p + 1], p + 1)
         IN IF ~target_register.ok THEN target_register
            ELSE IF p + 1 >= Len(kws)
            THEN Err(ParserError("MissingArgument", "ldc", "Constant16"), p + 1)
            ELSE LET constant == try_parse_constant(kws[p + 2], p + 2)
                 IN IF ~constant.ok THEN constant
                    ELSE Ok(Load(target_register.value, LoadConstant(constant.value)), p + 2)

try_parse_jmp(jump_instruction, kws, p, condition) ==
    IF p >= Len(kws)
    THEN Err(ParserError("MissingArgument", jump_instruction.name, "DestinationRegister"), p)
    ELSE LET register == try_parse_register(kws[p + 1], p + 1)
         IN IF register.ok
            THEN Ok(Jump(JumpRegister(register.value), condition), p + 1)
            ELSE Err(ParserError("CouldNotParseArgument", jump_instruction.name,
                                 "DestinationRegister"), p + 1)

try_parse_jr(jump_instruction, kws, p, condition) ==
    IF p >= Len(kws)
    THEN Err(ParserError("MissingArgument", jump_instruction.name,
                         "ConstantSigned12 or JumpLabel"), p)
    ELSE LET constant == try_parse_constant(kws[p + 1], p + 1)
             label == try_parse_label_reference(kws[p + 1], p + 1)
         IN IF constant.ok THEN Ok(Jump(JumpConstant(constant.value), condition), p + 1)
            ELSE IF label.ok THEN Ok(Jump(JumpLabel(label.value), condition), p + 1)
            ELSE Err(ParserError("CouldNotParseArgument", jump_instruction.name,
                                 "ConstantSigned12 or JumpLabel"), p + 1)

\* the mnemonics whose arm wraps try_parse_binary_expression, with the variant built
BinaryMnemonics ==
    [add |-> "Add", addc |-> "AddWithCarry", sub |-> "Subtract", subc |-> "SubtractWithCarry",
     mul |-> "Multiply", and |-> "AND", or |-> "OR", xor |-> "XOR", xnor |-> "XNOR",
     shl |-> "ShiftLeft", shr |-> "ShiftRight"]

\* the mnemonics whose arm wraps try_parse_unary_expression
UnaryMnemonics == [not |-> "NOT", neg |-> "Negate", mov |-> "Move"]

\* the mnemonics of try_parse_jmp and try_parse_jr, with the condition passed
JmpMnemonics ==
    [jmp |-> "True", jz |-> "Zero", jnz |-> "NotZero", jc |-> "Less", jo |-> "Overflow"]

JrMnemonics ==
    [jrcon |-> "True", jr |-> "True", jzr |-> "Zero", jnzr |-> "NotZero", jcr |-> "Less",
     jor |-> "Overflow"]

\* `Ok(ir::Instruction::X(inner?))`: wraps the parsed operands, passes an error on
Wrap(op, r) == IF r.ok THEN Ok(Instr1(op, r.value), r.pos) ELSE r

\* try_parse_instruction(next_keyword, keywords): p is the iterator's position
\* after next_keyword was taken
try_parse_instruction(next_keyword, kws, p) ==
    IF next_keyword.kind # "Mmenonic"
    THEN Err(ParserError("UnknownCommand", "", ""), p)
    ELSE LET name == next_keyword.name
         IN CASE name = "ldc" -> try_parse_ldc(kws, p)
              [] name \in DOMAIN BinaryMnemonics ->
                   Wrap(BinaryMnemonics[name], try_parse_binary_expression(name, kws, p))
              [] name = "add3" -> Wrap("Add3", try_parse_ternary_expression(name, kws, p))
              [] name \in {"inc", "dec"} ->
                   LET unary_statement == try_parse_unary_statement(name, kws, p)
                   IN IF unary_statement.ok
                      THEN Ok(Instr1(IF name = "inc" THEN "Increment" ELSE "Decrement",
                                     UnaryExpression(unary_statement.value,
                                                     unary_statement.value)),
                              unary_statement.pos)
                      ELSE unary_statement
              [] name \in DOMAIN UnaryMnemonics ->
                   Wrap(UnaryMnemonics[name], try_parse_unary_expression(name, kws, p))
              [] name = "tst" -> Wrap("Test", try_parse_binary_statement(name, kws, p))
              [] name = "s32b" ->
                   IF p >= Len(kws)
                   THEN Err(ParserError("MissingArgument", "s32b", "EnableBoolean"), p)
                   ELSE LET boolean == try_parse_bool(kws[p + 1], p + 1)
                        IN IF boolean.ok THEN Ok(Set32BitMode(boolean.value), p + 1)
                           ELSE Err(ParserError("CouldNotParseArgument", "s32b",
                                                "EnableBoolean"), p + 1)
              [] name = "hlt" -> Ok(Halt, p)
              [] name \in DOMAIN JmpMnemonics ->
                   try_parse_jmp(next_keyword, kws, p, JmpMnemonics[name])
              [] name \in DOMAIN JrMnemonics ->
                   try_parse_jr(next_keyword, kws, p, JrMnemonics[name])
              [] name = "st" ->
                   LET u_expr == try_parse_unary_expression(name, kws, p)
                   IN IF u_expr.ok
                      THEN Ok(StoreRAM(u_expr.value.target, u_expr.value.source_a), u_expr.pos)
                      ELSE u_expr
              [] name = "ld" ->
                   LET u_expr == try_parse_unary_expression(name, kws, p)
                   IN IF u_expr.ok
                      THEN Ok(Load(u_expr.value.target, LoadRAM(u_expr.value.source_a)),
                              u_expr.pos)
                      ELSE u_expr
              [] name = "nop" -> Ok(Noop, p)
              [] OTHER -> Err(ParserError("UnknownCommand", name, ""), p)

(***************************************************************************)
(* parser.rs: parser(), one step per token taken at the top level.         *)
(***************************************************************************)
\* HashMap::insert: a new key is added, the value of a present key is replaced
insert(map, key, value) ==
    [k \in DOMAIN map \cup {key} |-> IF k = key THEN value ELSE map[k]]

\* `if let Some(vec) = parsed.get_mut(&label) { vec.push(i) } else { parsed.insert(label, vec![i]) }`
push_instruction(map, key, instruction) ==
    IF key \in DOMAIN map THEN [map EXCEPT ![key] = Append(@, instruction)]
    ELSE insert(map, key, <<instruction>>)

\* faulty variant of default_label: the synthetic label does not start at 0
default_label_at_one == LabelDefinition("main", 1)

default_label == LabelDefinition("main", 0)

\* faulty variant of ParserReturnsErr: the error is noted and the loop goes on
ParserReturnsErr_goes_on(err, p) ==
    /\ pstate' = "scan"
    /\ perror' = err
    /\ pos' = p
    /\ UNCHANGED <<start_label, last_label, instructions_since_label, known_labels, parsed>>

\* `return Err(..)`
ParserReturnsErr(err, p) ==
    /\ pstate' = "err"
    /\ perror' = err
    /\ pos' = p
    /\ UNCHANGED <<start_label, last_label, instructions_since_label, known_labels, parsed>>

\* the stream is empty
ParserStartEmpty ==
    /\ pstate = "start"
    /\ Len(keywords) = 0
    /\ ParserReturnsErr(ParserError("EmptyStream", "", ""), 0)
    /\ UNCHANGED <<overflow_checks, keywords, gen, enc_vars, lexer_vars>>

\* the first token is a Label: it is the start label, at address 0
ParserStartLabel ==
    /\ pstate = "start"
    /\ Len(keywords) > 0
    /\ LET parsed_start_label == try_parse_label_definition(keywords[1], 0, 0)
       IN /\ parsed_start_label.ok
          /\ start_label' = parsed_start_label.value
          /\ known_labels' = insert(known_labels, parsed_start_label.value.name,
                                    parsed_start_label.value)
          /\ last_label' = parsed_start_label.value
    /\ pos' = 1
    /\ pstate' = "scan"
    /\ UNCHANGED <<overflow_checks, keywords, perror, instructions_since_label, parsed, gen,
                   enc_vars, lexer_vars>>

\* the first token is no Label: it is parsed as the first instruction of "main"
ParserStartInstruction ==
    /\ pstate = "start"
    /\ Len(keywords) > 0
    /\ ~try_parse_label_definition(keywords[1], 0, 0).ok
    /\ LET r == try_parse_instruction(keywords[1], keywords, 1)
       IN IF r.ok
          THEN /\ start_label' = default_label
               /\ parsed' = push_instruction(parsed, default_label.name, r.value)
               /\ instructions_since_label' = instructions_since_label + 1
               /\ known_labels' = insert(known_labels, default_label.name, default_label)
               /\ last_label' = default_label
               /\ pos' = r.pos
               /\ pstate' = "scan"
               /\ UNCHANGED perror
          ELSE ParserReturnsErr(r.err, r.pos)
    /\ UNCHANGED <<overflow_checks, keywords, gen, enc_vars, lexer_vars>>

\* loop: the next token is a Label
ParserLabel ==
    /\ pstate = "scan"
    /\ pos < Len(keywords)
    /\ LET label == try_parse_label_definition(keywords[pos + 1], last_label.address,
                                               instructions_since_label)
       IN /\ label.ok
          /\ parsed' = insert(parsed, label.value.name, <<>>)
          /\ known_labels' = insert(known_labels, label.value.name, label.value)
          /\ last_label' = label.value
    /\ instructions_since_label' = 0
    /\ pos' = pos + 1
    /\ UNCHANGED <<overflow_checks, keywords, pstate, perror, start_label, gen, enc_vars, lexer_vars>>

\* loop: the next token is no Label
ParserInstruction ==
    /\ pstate = "scan"
    /\ pos < Len(keywords)
    /\ ~try_parse_label_definition(keywords[pos + 1], last_label.address,
                                   instructions_since_label).ok
    /\ LET r == try_parse_instruction(keywords[pos + 1], keywords, pos + 1)
       IN IF r.ok
          THEN /\ parsed' = push_instruction(parsed, last_label.name, r.value)
               /\ instructions_since_label' = instructions_since_label + 1
               /\ pos' = r.pos
               /\ UNCHANGED <<pstate, perror, start_label, last_label, known_labels>>
          ELSE ParserReturnsErr(r.err, r.pos)
    /\ UNCHANGED <<overflow_checks, keywords, gen, enc_vars, lexer_vars>>

\* loop: the iterator is exhausted: `return Ok(ir::IR {..})`
ParserEnd ==
    /\ pstate = "scan"
    /\ pos >= Len(keywords)
    /\ pstate' = "ok"
    /\ UNCHANGED <<overflow_checks, keywords, pos, perror, start_label, last_label,
                   instructions_since_label, known_labels, parsed, gen, enc_vars, lexer_vars>>

(***************************************************************************)
(* generator.rs: InstructionWord, a 20-bit buffer, bit 0 least             *)
(* significant.  The buffer [bool; 20] is held as the number whose binary  *)
(* digits it is.                                                           *)
(***************************************************************************)
\* bits lo..hi of the buffer, as a number
Bits(word, lo, hi) == (word \div (2 ^ lo)) % (2 ^ (hi - lo + 1))

\* set_bits on the slice buffer[lo..=hi]: every bit of the slice is overwritten
\* with the corresponding low bit of `int`; higher bits of `int` are dropped.
set_bits(word, lo, hi, int) ==
    word - Bits(word, lo, hi) * (2 ^ lo) + (int % (2 ^ (hi - lo + 1))) * (2 ^ lo)

\* faulty variant of clear: the buffer keeps the bits of the word before
clear_nothing(word) == word

InstructionWord_new == 0

clear(word) == 0

\* faulty variant of set_constant16: the upper part is written without the shift
set_constant16_unshifted(word, constant) ==
    set_bits(set_bits(word, 0, 3, constant % 16), 8, 19, constant)

set_constant16(word, constant) ==
    LET lower_4_bit == constant % 16
        upper_12_bit == constant \div 16
    IN set_bits(set_bits(word, 0, 3, lower_4_bit), 8, 19, upper_12_bit)

\* faulty variant of set_load: the marker is written one bit too low
set_load_bit6(word) == set_bits(word, 6, 6, 1)

set_load(word) == set_bits(word, 7, 7, 1)

set_load_address(word, address) == set_bits(word, 4, 6, address)

set_target(word, address) == set_bits(word, 17, 19, address)

set_op_a(word, address) == set_bits(word, 8, 10, address)

set_op_b(word, address) == set_bits(word, 11, 13, address)

set_op_c(word, address) == set_bits(word, 14, 16, address)

set_opcode(word, opcode) == set_bits(word, 0, 7, opcode)

set_constant12(word, constant) == set_bits(word, 8, 19, constant)

\* faulty variant of set_unary_expression: the target field is not written
set_unary_expression_source_only(word, u_expr) == set_op_a(word, u_expr.source_a)

set_unary_expression(word, u_expr) ==
    set_op_a(set_target(word, u_expr.target), u_expr.source_a)

set_binary_statement(word, b_stat) ==
    set_op_b(set_op_a(word, b_stat.source_a), b_stat.source_b)

set_binary_expression(word, b_expr) ==
    set_op_b(set_op_a(set_target(word, b_expr.target), b_expr.source_a), b_expr.source_b)

set_ternary_expression(word, t_expr) ==
    set_op_c(set_op_b(set_op_a(set_target(word, t_expr.target), t_expr.source_a),
                      t_expr.source_b), t_expr.source_c)

\* the array `buffer` of a word: buffer[i] of the code is element i + 1 here
Buffer(word) == [i \in 1..20 |-> Bits(word, i - 1, i - 1) = 1]

HEX_MAP ==
    <<"0", "1", "2", "3", "4", "5", "6", "7", "8", "9", "a", "b", "c", "d", "e", "f">>

\* `byte += 2usize.pow(idx)` for every set bit of the slice, then HEX_MAP[byte]
nibble_to_hex(buffer) ==
    LET RECURSIVE byte(_)
        byte(n) == IF n = 0 THEN 0
                   ELSE byte(n - 1) + (IF buffer[n] THEN 2 ^ (n - 1) ELSE 0)
    IN HEX_MAP[byte(Len(buffer)) + 1]

\* faulty variant of Display: the chunks are written in the order of the buffer
Display_unreversed(word) ==
    LET buffer == Buffer(word)
        chunks == [k \in 1..5 |-> SubSeq(buffer, 4 * k - 3, 4 * k)]
    IN [k \in 1..5 |-> nibble_to_hex(chunks[k])]

\* impl Display: `for nibble in self.buffer.chunks(4).rev() { write!(..) }`,
\* the strings written, in the order they are written
Display(word) ==
    LET buffer == Buffer(word)
        chunks == [k \in 1..5 |-> SubSeq(buffer, 4 * k - 3, 4 * k)]
    IN [k \in 1..5 |-> nibble_to_hex(chunks[6 - k])]

(***************************************************************************)
(* generator.rs: the body of the generator's inner loop, one instruction.  *)
(***************************************************************************)
\* the opcode literal of each match arm that writes a fixed opcode
opcode(op) ==
    CASE op = "Add" -> 0                  \* 0x0
      [] op = "Add3" -> 1                 \* 0x1
      [] op = "AddWithCarry" -> 2         \* 0x2
      [] op = "Subtract" -> 3             \* 0x3
      [] op = "SubtractWithCarry" -> 4    \* 0x4
      [] op = "Increment" -> 5            \* 0x5
      [] op = "Decrement" -> 6            \* 0x6
      [] op = "Multiply" -> 7             \* 0x7
      [] op = "Test" -> 8                 \* 0x8
      [] op = "AND" -> 9                  \* 0x9
      [] op = "OR" -> 10                  \* 0xa
      [] op = "NOT" -> 11                 \* 0xb
      [] op = "Negate" -> 11              \* 0xb
      [] op = "XOR" -> 13                 \* 0xd
      [] op = "XNOR" -> 14                \* 0xe
      [] op = "ShiftLeft" -> 15           \* 0xf
      [] op = "ShiftRight" -> 16          \* 0x10
      [] op = "Move" -> 72                \* 0x48
      [] op = "Set32BitMode" -> 74        \* 0x4a
      [] op = "StoreRAM" -> 104           \* 0x68
      [] op = "LoadRAM" -> 105            \* 0x69
      [] op = "Noop" -> 108               \* 0x6c
      [] op = "Debug" -> 126              \* 0x7e
      [] op = "Halt" -> 127               \* 0x7f

\* faulty variant of condition_offset: Less and Overflow exchanged
condition_offset_exchanged(condition) ==
    CASE condition = "True" -> 0
      [] condition = "Zero" -> 1
      [] condition = "NotZero" -> 2
      [] condition = "Less" -> 4
      [] condition = "Overflow" -> 3

\* `match condition { True => 0, Zero => 1, NotZero => 2, Less => 3, Overflow => 4 }`
condition_offset(condition) ==
    CASE condition = "True" -> 0
      [] condition = "Zero" -> 1
      [] condition = "NotZero" -> 2
      [] condition = "Less" -> 3
      [] condition = "Overflow" -> 4

absolute_jump_opcode(condition) == 80 + condition_offset(condition)   \* 0x50 + ...

relative_jump_opcode(condition) == 88 + condition_offset(condition)   \* 0x58 + ...

\* outcomes of one loop iteration
Pushed(word) == [kind |-> "push", word |-> word, label_name |-> ""]
Skipped(word) == [kind |-> "skip", word |-> word, label_name |-> ""]
UndefinedLabel(label_name) == [kind |-> "UndefinedLabel", word |-> 0, label_name |-> label_name]
Panicked == [kind |-> "panic", word |-> 0, label_name |-> ""]

\* `let offset = match target { Label(..) => .., Constant(c) => *c - 1, _ => 0 }`
\* gives the offset, UndefinedLabel, or a panic of the arithmetic.
jump_offset(target, label, idx, label_definitions, oc) ==
    CASE target.kind = "Label" ->
            IF target.name \in DOMAIN label_definitions
            THEN LET here == checked(label.address + idx + 1, oc)
                 IN IF here.panic THEN [kind |-> "panic", value |-> 0, label_name |-> ""]
                    ELSE [kind |-> "ok", label_name |-> "",
                          value |-> wrapping_sub(label_definitions[target.name].address, here.value)]
            ELSE [kind |-> "UndefinedLabel", value |-> 0, label_name |-> target.name]
      [] target.kind = "Constant" ->
            LET d == checked(target.value - 1, oc)
            IN IF d.panic THEN [kind |-> "panic", value |-> 0, label_name |-> ""]
               ELSE [kind |-> "ok", value |-> d.value, label_name |-> ""]
      [] OTHER -> [kind |-> "ok", value |-> 0, label_name |-> ""]

\* the relative-jump arm
relative_jump(w, instr, label, idx, label_definitions, oc) ==
    LET w1 == set_opcode(w, relative_jump_opcode(instr.condition))
        offset == jump_offset(instr.target, label, idx, label_definitions, oc)
    IN CASE offset.kind = "UndefinedLabel" -> UndefinedLabel(offset.label_name)
         [] offset.kind = "panic" -> Panicked
         [] OTHER -> Pushed(set_constant12(w1, offset.value))

\* `instruction_word.clear(); match instr { ... }` for the instruction at index
\* idx of the list of `label`; `word` is the buffer as the previous iteration left it.
encode_instruction(word, instr, label, idx, label_definitions, oc) ==
    LET w == clear(word)
    IN CASE instr.op \in BinaryOps ->
              Pushed(set_binary_expression(set_opcode(w, opcode(instr.op)), instr.e))
         [] instr.op = "Add3" ->
              Pushed(set_ternary_expression(set_opcode(w, opcode("Add3")), instr.e))
         [] instr.op \in UnaryOps ->
              Pushed(set_unary_expression(set_opcode(w, opcode(instr.op)), instr.e))
         [] instr.op = "Test" ->
              Pushed(set_binary_statement(set_opcode(w, opcode("Test")), instr.e))
         [] instr.op = "Set32BitMode" ->
              Pushed(set_constant12(set_opcode(w, opcode("Set32BitMode")),
                                    IF instr.enable THEN 255 ELSE 0))
         [] instr.op = "Jump" /\ instr.target.kind = "Register" ->
              Pushed(set_op_a(set_opcode(w, absolute_jump_opcode(instr.condition)),
                              instr.target.reg))
         [] instr.op = "Jump" /\ instr.target.kind # "Register" ->
              relative_jump(w, instr, label, idx, label_definitions, oc)
         [] instr.op = "Debug" -> Pushed(set_opcode(w, opcode("Debug")))
         [] instr.op = "Halt" -> Pushed(set_opcode(w, opcode("Halt")))
         [] instr.op = "Load" /\ instr.source.kind = "Constant" ->
              Pushed(set_constant16(set_load_address(set_load(w), instr.address),
                                    instr.source.value))
         [] instr.op = "StoreRAM" ->
              Pushed(set_op_b(set_op_a(set_opcode(w, opcode("StoreRAM")), instr.data_register),
                              instr.address_register))
         [] instr.op = "Load" /\ instr.source.kind = "RAM" ->
              Pushed(set_target(set_op_b(set_opcode(w, opcode("LoadRAM")),
                                         instr.source.address_register), instr.address))
         [] instr.op = "Noop" -> Pushed(set_opcode(w, opcode("Noop")))
         [] OTHER -> Skipped(w)

\* the empty hash map
NoLabels == [n \in {} |-> LabelDefinition("", 0)]

\* no outcome yet
NoOutcome == [kind |-> "none", word |-> 0, label_name |-> ""]

NoGen == [kind |-> "none", binary |-> <<>>, label_name |-> ""]

(***************************************************************************)
(* generator.rs: generator().                                              *)
(***************************************************************************)
GenOk(binary) == [kind |-> "Ok", binary |-> binary, label_name |-> ""]
GenErr(label_name) == [kind |-> "UndefinedLabel", binary |-> <<>>, label_name |-> label_name]
GenPanic == [kind |-> "panic", binary |-> <<>>, label_name |-> ""]

\* faulty variant of label_orders: the sort is left out
label_orders_unsorted(label_definitions) ==
    LET n == Cardinality(DOMAIN label_definitions)
    IN {labels \in [1..n -> DOMAIN label_definitions] :
          \A i, j \in 1..n : i # j => labels[i] # labels[j]}

\* `labels = label_definitions.values().collect(); labels.sort_by(address)`: the
\* hash map yields its values in any order and the sort is stable, so every
\* arrangement of the labels with non-decreasing addresses can come out
label_orders(label_definitions) ==
    LET n == Cardinality(DOMAIN label_definitions)
    IN {labels \in [1..n -> DOMAIN label_definitions] :
          /\ \A i, j \in 1..n : i # j => labels[i] # labels[j]
          /\ \A i, j \in 1..n :
                i < j => label_definitions[labels[i]].address
                           <= label_definitions[labels[j]].address}

\* `for (idx, instr) in instructions.iter().enumerate() { .. }` from index idx on;
\* gives [kind, word, binary, label_name]: kind "ok" when the list was
\* encoded, else the outcome that ended generator()
RECURSIVE generate_instructions(_, _, _, _, _, _, _)
generate_instructions(instructions, idx, label, label_definitions, word, binary, oc) ==
    IF idx >= Len(instructions)
    THEN [kind |-> "ok", word |-> word, binary |-> binary, label_name |-> ""]
    ELSE LET out == encode_instruction(word, instructions[idx + 1], label, idx,
                                       label_definitions, oc)
         IN CASE out.kind = "push" ->
                   generate_instructions(instructions, idx + 1, label, label_definitions,
                                         out.word, Append(binary, out.word), oc)
              [] out.kind = "skip" ->
                   generate_instructions(instructions, idx + 1, label, label_definitions,
                                         out.word, binary, oc)
              [] OTHER ->
                   [kind |-> out.kind, word |-> word, binary |-> binary,
                    label_name |-> out.label_name]

\* `for label in labels { if let Some(instructions) = ir.instructions.get(..) { .. } }`
RECURSIVE generate_labels(_, _, _, _, _, _, _)
generate_labels(labels, i, instructions, label_definitions, word, binary, oc) ==
    IF i > Len(labels) THEN GenOk(binary)
    ELSE IF labels[i] \in DOMAIN instructions
    THEN LET r == generate_instructions(instructions[labels[i]], 0,
                                        label_definitions[labels[i]], label_definitions,
                                        word, binary, oc)
         IN CASE r.kind = "ok" ->
                   generate_labels(labels, i + 1, instructions, label_definitions,
                                   r.word, r.binary, oc)
              [] r.kind = "UndefinedLabel" -> GenErr(r.label_name)
              [] OTHER -> GenPanic
    ELSE generate_labels(labels, i + 1, instructions, label_definitions, word, binary, oc)

\* generator(ir) with the labels visited in the order `labels`
generator(instructions, label_definitions, labels, oc) ==
    generate_labels(labels, 1, instructions, label_definitions, InstructionWord_new, <<>>, oc)

(***************************************************************************)
(* Spec: parser, then generator, on a bounded token stream.                *)
(***************************************************************************)
\* the tokens of the streams: three label names, instructions without operand,
\* a relative jump, and a constant
StreamTokens ==
    {K_Label("a"), K_Label("b"), K_Label("main"), K_Mmenonic("nop"), K_Mmenonic("hlt"),
     K_Mmenonic("jr"), K_Constant("0", 0)}

Streams == UNION {[1..n -> StreamTokens] : n \in 0..MaxTokens}

EncIdle ==
    /\ enc_instr = Noop
    /\ enc_label = LabelDefinition("", 0)
    /\ enc_idx = 0
    /\ enc_defs = NoLabels
    /\ enc_prev = Noop
    /\ enc_pc = "idle"
    /\ instruction_word = InstructionWord_new
    /\ enc_out = NoOutcome

Init ==
    /\ overflow_checks \in BOOLEAN
    /\ keywords \in Streams
    /\ pos = 0
    /\ pstate = "start"
    /\ perror = NoError
    /\ start_label = LabelDefinition("", 0)
    /\ last_label = LabelDefinition("", 0)
    /\ instructions_since_label = 0
    /\ known_labels = NoLabels
    /\ parsed = NoLabels
    /\ gen = NoGen
    /\ EncIdle
    /\ LexerIdle

\* main(): the IR the parser returned is handed to generator()
Generate ==
    /\ pstate = "ok"
    /\ gen.kind = "none"
    /\ \E labels \in label_orders(known_labels) :
          gen' = generator(parsed, known_labels, labels, overflow_checks)
    /\ UNCHANGED <<overflow_checks, keywords, pos, pstate, perror, start_label, last_label,
                   instructions_since_label, known_labels, parsed, enc_vars, lexer_vars>>

Next ==
    \/ ParserStartEmpty
    \/ ParserStartLabel
    \/ ParserStartInstruction
    \/ ParserLabel
    \/ ParserInstruction
    \/ ParserEnd
    \/ Generate

Spec == Init /\ [][Next]_vars

(***************************************************************************)
(* SpecEnc: the loop body on bounded inputs.  The buffer is new, or holds  *)
(* the word of the iteration before.                                       *)
(***************************************************************************)
\* 16-bit constants of the model: the low ones, the high ones, and every
\* single bit set or cleared
Constants ==
    {c \in 0..(U16 - 1) :
        \/ c <= MaxConst
        \/ c >= U16 - 1 - MaxConst
        \/ \E k \in 0..15 : c = 2 ^ k \/ c = U16 - 1 - 2 ^ k
        \/ c \in {2047, 63489}}

UnaryExpressions == {UnaryExpression(t, a) : t \in Registers, a \in Registers}

BinaryStatements == {BinaryStatement(a, b) : a \in Registers, b \in Registers}

BinaryExpressions ==
    {BinaryExpression(t, a, b) : t \in Registers, a \in Registers, b \in Registers}

TernaryExpressions ==
    {TernaryExpression(ue.target, ue.source_a, bs.source_a, bs.source_b) :
        ue \in UnaryExpressions, bs \in BinaryStatements}

\* every Instruction value that names no label
PlainInstructions ==
    {Instr1(op, e) : op \in BinaryOps, e \in BinaryExpressions}
    \cup {Instr1("Add3", e) : e \in TernaryExpressions}
    \cup {Instr1(op, e) : op \in UnaryOps, e \in UnaryExpressions}
    \cup {Instr1("Test", e) : e \in BinaryStatements}
    \cup {Set32BitMode(b) : b \in BOOLEAN}
    \cup {Jump(JumpRegister(r), c) : r \in Registers, c \in JumpConditions}
    \cup {Jump(JumpConstant(k), c) : k \in Constants, c \in JumpConditions}
    \cup {Load(r, LoadConstant(k)) : r \in Registers, k \in Constants}
    \cup {Load(r, LoadRAM(a)) : r \in Registers, a \in Registers}
    \cup {Load(r, LoadPgm) : r \in Registers}
    \cup {StoreRAM(a, d) : a \in Registers, d \in Registers}
    \cup {Halt, Noop, Debug}

\* relative jumps to the label "T" (in the table) and "U" (not in it)
LabelJumps == {Jump(JumpLabel(n), c) : n \in {"T", "U"}, c \in JumpConditions}

\* instructions that leave many bits of the buffer set
PrevInstructions ==
    {Instr1("Add3", TernaryExpression(7, 7, 7, 7)),
     Load(7, LoadConstant(U16 - 1)),
     Jump(JumpConstant(U16 - 2), "Overflow")}

ParserIdle ==
    /\ keywords = <<>>
    /\ pos = 0
    /\ pstate = "idle"
    /\ perror = NoError
    /\ start_label = LabelDefinition("", 0)
    /\ last_label = LabelDefinition("", 0)
    /\ instructions_since_label = 0
    /\ known_labels = NoLabels
    /\ parsed = NoLabels
    /\ gen = NoGen

InitEnc ==
    /\ overflow_checks \in BOOLEAN
    /\ ParserIdle
    /\ LexerIdle
    /\ \/ /\ enc_instr \in PlainInstructions
          /\ enc_label = LabelDefinition("C", 0)
          /\ enc_idx = 0
          /\ enc_defs = NoLabels
       \/ /\ enc_instr \in LabelJumps
          /\ enc_label \in {LabelDefinition("C", a) : a \in 0..MaxAddr}
          /\ enc_idx \in 0..MaxIdx
          /\ enc_defs \in {[n \in {"T", "C"} |->
                              IF n = "T" THEN LabelDefinition("T", t) ELSE enc_label] :
                           t \in 0..MaxAddr}
    /\ \/ enc_pc = "prev" /\ enc_prev \in PrevInstructions
       \/ enc_pc = "cur" /\ enc_prev = Noop
    /\ instruction_word = InstructionWord_new
    /\ enc_out = NoOutcome

\* the iteration before the one observed: it pushes its word and leaves it in the buffer
EncodePrev ==
    /\ enc_pc = "prev"
    /\ LET out == encode_instruction(instruction_word, enc_prev, enc_label, 0,
                                     enc_defs, overflow_checks)
       IN /\ out.kind = "push"
          /\ instruction_word' = out.word
    /\ enc_pc' = "cur"
    /\ UNCHANGED <<overflow_checks, parser_vars, lexer_vars, enc_instr, enc_label, enc_idx, enc_defs,
                   enc_prev, enc_out>>

\* the iteration observed
EncodeCur ==
    /\ enc_pc = "cur"
    /\ LET out == encode_instruction(instruction_word, enc_instr, enc_label, enc_idx,
                                     enc_defs, overflow_checks)
       IN /\ enc_out' = out
          /\ instruction_word' = IF out.kind \in {"push", "skip"} THEN out.word
                                 ELSE instruction_word
    /\ enc_pc' = "done"
    /\ UNCHANGED <<overflow_checks, parser_vars, lexer_vars, enc_instr, enc_label, enc_idx, enc_defs,
                   enc_prev>>

NextEnc == EncodePrev \/ EncodeCur

SpecEnc == InitEnc /\ [][NextEnc]_vars

(***************************************************************************)
(* SpecLex: lexer() on a bounded source file.  A file is up to MaxLines    *)
(* lines out of SourceLines, or one line with a jump to a numeral out of   *)
(* ConstantWords.                                                          *)
(***************************************************************************)
\* the lines a source is made of, each followed by its text
SourceLines ==
    {<<" ", " ", " ", " ", "h", "l", "t">>,
        \* "    hlt"
     <<" ", " ", " ", " ", "n", "o", "p">>,
        \* "    nop"
     <<"m", "a", "i", "n", ":">>,
        \* "main:"
     <<" ", " ", " ", " ", "j", "r", " ", "m", "a", "i", "n">>,
        \* "    jr main"
     <<>>,
        \* ""
     <<";", " ", "c">>,
        \* "; c"
     <<" ", " ", " ", " ", "l", "d", "c", " ", "%", "r", "e", "g", "0", " ", "0", "x", "0", "5">>,
        \* "    ldc %reg0 0x05"
     <<" ", " ", " ", " ", "i", "n", "c", " ", "%", "r", "e", "g", "0", " ", "a", "_", "b">>,
        \* "    inc %reg0 a_b"
     <<"\t", "n", "o", "p", " ", ";", " ", "c">>,
        \* "<tab>nop ; c"
     <<" ", " ", "\t">>,
        \* "  <tab>"
     <<" ", " ", "a", ":">>,
        \* "  a:"
     <<" ", " ", " ", " ", "a", "d", "d", " ", "a", "d", "d">>}
        \* "    add add"

\* the numerals: an optional '-', an optional "0x" or "0b", and up to MaxDigits digits
SampleDigits == {"0", "1", "5", "6"}

DigitStrings == UNION {[1..n -> SampleDigits] : n \in 1..MaxDigits}

\* numerals with other digits, and binary numerals of 16 and 17 digits:
\* -1337, -2047, 2047, 173, 0xa7, 0xffff, 0xFFFF, -0xffff, 65535,
\* -65535, 0b0011010, 0b1111111111111111, 0b10000000000000000
OtherNumerals ==
    {<<"-", "1", "3", "3", "7">>,
     <<"-", "2", "0", "4", "7">>,
     <<"2", "0", "4", "7">>,
     <<"1", "7", "3">>,
     <<"0", "x", "a", "7">>,
     <<"0", "x", "f", "f", "f", "f">>,
     <<"0", "x", "F", "F", "F", "F">>,
     <<"-", "0", "x", "f", "f", "f", "f">>,
     <<"6", "5", "5", "3", "5">>,
     <<"-", "6", "5", "5", "3", "5">>,
     <<"0", "b", "0", "0", "1", "1", "0", "1", "0">>,
     <<"0", "b", "1", "1", "1", "1", "1", "1", "1", "1", "1", "1", "1", "1", "1", "1", "1", "1">>,
     <<"0", "b", "1", "0", "0", "0", "0", "0", "0", "0", "0", "0", "0", "0", "0", "0", "0", "0", "0">>}

ConstantWords ==
    {sign \o prefix \o digits :
        sign \in {<<>>, <<"-">>},
        prefix \in {<<>>, <<"0", "x">>, <<"0", "b">>},
        digits \in DigitStrings}
        \cup OtherNumerals

\* "    jr <word>"
ConstantLine(word) == <<" ", " ", " ", " ", "j", "r", " ">> \o word

Sources ==
    UNION {[1..n -> SourceLines] : n \in 0..MaxLines}
        \cup {<<ConstantLine(word)>> : word \in ConstantWords}

InitLex ==
    /\ overflow_checks = FALSE
    /\ ParserIdle
    /\ EncIdle
    /\ lines \in Sources
    /\ lexer_pc = "open"
    /\ line_number = 0
    /\ lexed = <<>>
    /\ keyword_buffer = <<>>
    /\ errors = <<>>
    /\ lexer_out = NoLexed

NextLex ==
    \/ LexerOpen
    \/ LexerOpenFails
    \/ LexerLine
    \/ LexerLineIoError
    \/ LexerEnd

SpecLex == InitLex /\ [][NextLex]_vars

(***************************************************************************)
(* SpecOperands: the parser on short streams: a mnemonic followed by up to *)
(* MaxOperands tokens out of OperandTokens, which hold every valid         *)
(* register spelling and some invalid ones.                                *)
(***************************************************************************)
\* "reg" followed by the characters of `suffix`
RegisterName(suffix) == <<"r", "e", "g">> \o suffix

ValidRegisterTokens ==
    {K_RegisterAddress(RegisterName(<<RegisterDigits[i]>>)) : i \in 1..8}
        \cup {K_RegisterAddress(RegisterName(<<RegisterLetters[i]>>)) : i \in 1..8}

\* reg8, reg, rega, reg0x, reg77, and r0
OtherRegisterTokens ==
    {K_RegisterAddress(RegisterName(<<"8">>)), K_RegisterAddress(RegisterName(<<>>)),
     K_RegisterAddress(RegisterName(<<"a">>)), K_RegisterAddress(RegisterName(<<"0", "x">>)),
     K_RegisterAddress(RegisterName(<<"7", "7">>)), K_RegisterAddress(<<"r", "0">>)}

OperandTokens ==
    ValidRegisterTokens \cup OtherRegisterTokens
        \cup {K_Constant("5", 5), K_Label("a"), K_Mmenonic("hlt")}

OperandMnemonics ==
    {K_Mmenonic(name) : name \in DOMAIN JmpMnemonics \cup DOMAIN JrMnemonics
                                     \cup {"inc", "mov", "hlt"}}

OperandStreams ==
    {<<mnemonic>> \o operands :
        mnemonic \in OperandMnemonics,
        operands \in UNION {[1..n -> OperandTokens] : n \in 0..MaxOperands}}

InitOperands ==
    /\ overflow_checks = FALSE
    /\ keywords \in OperandStreams
    /\ pos = 0
    /\ pstate = "start"
    /\ perror = NoError
    /\ start_label = LabelDefinition("", 0)
    /\ last_label = LabelDefinition("", 0)
    /\ instructions_since_label = 0
    /\ known_labels = NoLabels
    /\ parsed = NoLabels
    /\ gen = NoGen
    /\ EncIdle
    /\ LexerIdle

NextOperands ==
    \/ ParserStartInstruction
    \/ ParserLabel
    \/ ParserInstruction
    \/ ParserEnd

SpecOperands == InitOperands /\ [][NextOperands]_vars

(***************************************************************************)
(* SpecMain: main() on a bounded source file: lexer(), then parser() on    *)
(* the tokens, then generator() on the IR.  A file is up to MaxLines lines *)
(* out of ProgramLines, or one instruction line with register operands.    *)
(***************************************************************************)
ProgramLines ==
    {<<"m", "a", "i", "n", ":">>,
        \* "main:"
     <<" ", " ", " ", " ", "l", "d", "c", " ", "%", "r", "e", "g", "0", " ", "0", "x", "0", "5">>,
        \* "    ldc %reg0 0x05"
     <<" ", " ", " ", " ", "l", "d", "c", " ", "r", "e", "g", "0", " ", "0", "x", "0", "5">>,
        \* "    ldc reg0 0x05"
     <<" ", " ", " ", " ", "h", "l", "t">>,
        \* "    hlt"
     <<" ", " ", " ", " ", "n", "o", "p">>,
        \* "    nop"
     <<" ", " ", " ", " ", "n", "o", "p", " ", "f", "o", "o">>,
        \* "    nop foo"
     <<" ", " ", " ", " ", "h", "l", "t", " ", "l", "o", "o", "p">>,
        \* "    hlt loop"
     <<" ", " ", " ", " ", "n", "o", "p", " ", "%", "r", "e", "g", "0">>,
        \* "    nop %reg0"
     <<" ", " ", " ", " ", "n", "o", "p", " ", "5">>}
        \* "    nop 5"

\* "    <command> %<first>" and "    <command> %<first> %<second>"
RegisterLine(command, operands) ==
    <<" ", " ", " ", " ">> \o command
        \o (IF Len(operands) >= 1 THEN <<" ", "%">> \o operands[1] ELSE <<>>)
        \o (IF Len(operands) >= 2 THEN <<" ", "%">> \o operands[2] ELSE <<>>)

\* the register names "reg0".."reg7" and "regA".."regH"
RegisterNames ==
    {RegisterName(<<RegisterDigits[i]>>) : i \in 1..8}
        \cup {RegisterName(<<RegisterLetters[i]>>) : i \in 1..8}

RegisterLines ==
    {RegisterLine(command, <<first, second>>) :
        command \in {<<"s", "t">>, <<"l", "d">>, <<"i", "n", "c">>, <<"d", "e", "c">>},
        first \in RegisterNames,
        second \in {RegisterName(<<RegisterDigits[i]>>) : i \in 1..8}}
        \cup {RegisterLine(command, <<first>>) :
                command \in {<<"s", "t">>, <<"i", "n", "c">>, <<"d", "e", "c">>},
                first \in RegisterNames}

Programs ==
    UNION {[1..n -> ProgramLines] : n \in 0..MaxLines}
        \cup {<<line>> : line \in RegisterLines}

InitMain ==
    /\ overflow_checks \in BOOLEAN
    /\ ParserIdle
    /\ EncIdle
    /\ lines \in Programs
    /\ lexer_pc = "open"
    /\ line_number = 0
    /\ lexed = <<>>
    /\ keyword_buffer = <<>>
    /\ errors = <<>>
    /\ lexer_out = NoLexed

\* `let lexed = lexer::lexer(..).unwrap_or_else(.. process::exit(1));
\*  let parsed = parser::parser(lexed)`: the parser is started on the tokens
MainParser ==
    /\ lexer_pc = "done"
    /\ lexer_out.kind = "Ok"
    /\ pstate = "idle"
    /\ keywords' = lexer_out.lexed
    /\ pstate' = "start"
    /\ UNCHANGED <<overflow_checks, pos, perror, start_label, last_label,
                   instructions_since_label, known_labels, parsed, gen, enc_vars, lexer_vars>>

NextMain ==
    \/ LexerOpen
    \/ LexerOpenFails
    \/ LexerLine
    \/ LexerLineIoError
    \/ LexerEnd
    \/ MainParser
    \/ ParserStartEmpty
    \/ ParserStartLabel
    \/ ParserStartInstruction
    \/ ParserLabel
    \/ ParserInstruction
    \/ ParserEnd
    \/ Generate

SpecMain == InitMain /\ [][NextMain]_vars

(***************************************************************************)
(* Properties of the encoding (checked under SpecEnc).                     *)
(***************************************************************************)
EncDone == enc_pc = "done"

IsRelativeJump(instr) == instr.op = "Jump" /\ instr.target.kind \in {"Constant", "Label"}

IsLoadImmediate(instr) == instr.op = "Load" /\ instr.source.kind = "Constant"

\* C3: a relative jump to a label T of the table, at index idx of the list of
\* label C, is emitted with the 12-bit constant field (bits 8..19) equal to
\* ((address(T) - (address(C) + idx + 1)) mod 2^16) mod 2^12.
C3_LabelJumpOffset ==
    (/\ EncDone
     /\ enc_instr.op = "Jump"
     /\ enc_instr.target.kind = "Label"
     /\ enc_instr.target.name \in DOMAIN enc_defs)
    => /\ enc_out.kind = "push"
       /\ Bits(enc_out.word, 8, 19) =
            ((enc_defs[enc_instr.target.name].address
                - (enc_label.address + enc_idx + 1)) % 65536) % 4096

\* the backward jump of the specification: T at 5, C at 10, idx 2 gives 65528, field 0xFF8
C3_Witness ==
    /\ EncDone
    /\ enc_instr = Jump(JumpLabel("T"), "Zero")
    /\ enc_defs["T"].address = 5
    /\ enc_label.address = 10
    /\ enc_idx = 2
    /\ enc_out.kind = "push"
    /\ Bits(enc_out.word, 8, 19) = 4088
    /\ (5 - 13) % 65536 = 65528

\* C5: a relative jump with a literal target c is always emitted, with the
\* 12-bit constant field equal to ((c - 1) mod 2^16) mod 2^12; c = 0 gives 0xFFF.
C5_ConstantJumpOffset ==
    (/\ EncDone
     /\ enc_instr.op = "Jump"
     /\ enc_instr.target.kind = "Constant")
    => /\ enc_out.kind = "push"
       /\ Bits(enc_out.word, 8, 19) = ((enc_instr.target.value - 1) % 65536) % 4096

\* C6: Load{r, Constant(c)} is emitted with bit 7 = 1, bits 4..6 = r,
\* bits 0..3 = c mod 16 and bits 8..19 = c div 16, so decoding the word by the
\* documented layout gives back (r, c).
C6_LoadImmediateRoundTrip ==
    (EncDone /\ IsLoadImmediate(enc_instr))
    => /\ enc_out.kind = "push"
       /\ Bits(enc_out.word, 7, 7) = 1
       /\ Bits(enc_out.word, 4, 6) = enc_instr.address
       /\ Bits(enc_out.word, 0, 3) = enc_instr.source.value % 16
       /\ Bits(enc_out.word, 8, 19) = enc_instr.source.value \div 16
       /\ Bits(enc_out.word, 8, 19) * 16 + Bits(enc_out.word, 0, 3) = enc_instr.source.value
       /\ enc_out.word < 2 ^ 20

\* a load of a constant with all nibbles different, into a buffer that held another word
C6_Witness ==
    /\ EncDone
    /\ enc_prev = Instr1("Add3", TernaryExpression(7, 7, 7, 7))
    /\ instruction_word # InstructionWord_new
    /\ enc_instr = Load(5, LoadConstant(63489))
    /\ enc_out.kind = "push"
    /\ Bits(enc_out.word, 4, 6) = 5
    /\ Bits(enc_out.word, 8, 19) * 16 + Bits(enc_out.word, 0, 3) = 63489

\* the opcode table of the specification for the ALU/control instructions
TableOps ==
    BinaryOps \cup UnaryOps \cup {"Add3", "Test", "Noop", "Debug", "Halt"}

TableOpcode(op) ==
    CASE op = "Add" -> 0 [] op = "Add3" -> 1 [] op = "AddWithCarry" -> 2
      [] op = "Subtract" -> 3 [] op = "SubtractWithCarry" -> 4 [] op = "Increment" -> 5
      [] op = "Decrement" -> 6 [] op = "Multiply" -> 7 [] op = "Test" -> 8
      [] op = "AND" -> 9 [] op = "OR" -> 10 [] op = "NOT" -> 11 [] op = "Negate" -> 11
      [] op = "XOR" -> 13 [] op = "XNOR" -> 14 [] op = "ShiftLeft" -> 15
      [] op = "ShiftRight" -> 16 [] op = "Move" -> 72 [] op = "Noop" -> 108
      [] op = "Debug" -> 126 [] op = "Halt" -> 127

\* the operand an instruction has in a field, 0 when it has none
OperandOf(instr, field) ==
    IF instr.op \in {"Noop", "Debug", "Halt"} THEN 0
    ELSE IF field \in DOMAIN instr.e THEN instr.e[field] ELSE 0

\* C7: every ALU/control instruction is emitted as the word holding the
\* table's opcode in bits 0..7, source-A in bits 8..10, source-B in bits
\* 11..13, source-C in bits 14..16, the target in bits 17..19, and zero in
\* every operand field the instruction does not have, whatever the buffer held.
C7_AluControlLayout ==
    (EncDone /\ enc_instr.op \in TableOps)
    => /\ enc_out.kind = "push"
       /\ Bits(enc_out.word, 0, 7) = TableOpcode(enc_instr.op)
       /\ Bits(enc_out.word, 8, 10) = OperandOf(enc_instr, "source_a")
       /\ Bits(enc_out.word, 11, 13) = OperandOf(enc_instr, "source_b")
       /\ Bits(enc_out.word, 14, 16) = OperandOf(enc_instr, "source_c")
       /\ Bits(enc_out.word, 17, 19) = OperandOf(enc_instr, "target")
       /\ enc_out.word < 2 ^ 20

\* Halt after Add3 is exactly 0x0007F
C7_Witness ==
    /\ EncDone
    /\ enc_prev = Instr1("Add3", TernaryExpression(7, 7, 7, 7))
    /\ enc_instr = Halt
    /\ enc_out.kind = "push"
    /\ enc_out.word = 127

ConditionIndex(condition) ==
    CASE condition = "True" -> 0 [] condition = "Zero" -> 1 [] condition = "NotZero" -> 2
      [] condition = "Less" -> 3 [] condition = "Overflow" -> 4

JumpOpcodes ==
    {absolute_jump_opcode(c) : c \in JumpConditions}
    \cup {relative_jump_opcode(c) : c \in JumpConditions}

OtherOpcodes ==
    {opcode(op) : op \in TableOps \cup {"Set32BitMode", "StoreRAM", "LoadRAM"}}

\* C8: a word emitted for an absolute jump has opcode 0x50 + k and the target
\* register in source-A; a word emitted for a relative jump has opcode
\* 0x58 + k and the offset in the 12-bit constant field (k = 0 True, 1 Zero,
\* 2 NotZero, 3 Less, 4 Overflow); the ten jump opcodes are pairwise distinct
\* and differ from every other opcode of the table.
C8_JumpEncoding ==
    /\ (EncDone /\ enc_instr.op = "Jump" /\ enc_instr.target.kind = "Register")
       => /\ enc_out.kind = "push"
          /\ Bits(enc_out.word, 0, 7) = 80 + ConditionIndex(enc_instr.condition)
          /\ Bits(enc_out.word, 8, 10) = enc_instr.target.reg
          /\ Bits(enc_out.word, 11, 19) = 0
    /\ (EncDone /\ IsRelativeJump(enc_instr) /\ enc_out.kind = "push")
       => /\ Bits(enc_out.word, 0, 7) = 88 + ConditionIndex(enc_instr.condition)
          /\ Bits(enc_out.word, 8, 19) =
               IF enc_instr.target.kind = "Constant"
               THEN (enc_instr.target.value - 1) % 4096
               ELSE (enc_defs[enc_instr.target.name].address
                       - (enc_label.address + enc_idx + 1)) % 4096
    /\ Cardinality(JumpOpcodes) = 10
    /\ JumpOpcodes \cap OtherOpcodes = {}

\* jz through register 6 and a relative jump on overflow, both into a used buffer
C8_Witness ==
    /\ EncDone
    /\ enc_prev = Load(7, LoadConstant(65535))
    /\ enc_out.kind = "push"
    /\ \/ enc_instr = Jump(JumpRegister(6), "Zero") /\ enc_out.word = 81 + 6 * 256
       \/ enc_instr = Jump(JumpConstant(2047), "Overflow") /\ enc_out.word = 92 + 2046 * 256

\* C9: in every emitted word bit 7 is 1 exactly when the instruction is a Load
\* of an immediate constant; the opcode byte of every other emitted word lies
\* in 0x00..0x7F.
C9_FormatDiscrimination ==
    (EncDone /\ enc_out.kind = "push")
    => /\ (Bits(enc_out.word, 7, 7) = 1) <=> IsLoadImmediate(enc_instr)
       /\ ~IsLoadImmediate(enc_instr) => Bits(enc_out.word, 0, 7) \in 0..127

\* Halt, the largest opcode, emitted into a buffer that held an immediate load
C9_Witness ==
    /\ EncDone
    /\ enc_prev = Load(7, LoadConstant(65535))
    /\ enc_instr = Halt
    /\ enc_out.kind = "push"
    /\ Bits(enc_out.word, 7, 7) = 0

(***************************************************************************)
(* Properties of the pipeline (checked under Spec).                        *)
(***************************************************************************)
Generated == gen.kind # "none"

\* the word generator() emits for the instruction at index idx of label_name's list
WordAt(label_name, idx) ==
    encode_instruction(InstructionWord_new, parsed[label_name][idx + 1],
                       known_labels[label_name], idx, known_labels, overflow_checks).word

\* C1: after a successful parse and generation, for every label L of the
\* label table and every i below the number of instructions under L, the
\* word at index address(L) + i of the output is the encoding of the i-th
\* instruction of L -- for every stream, also one that names a label twice.
C1_LabelAddressIndexesWords ==
    gen.kind = "Ok"
    => \A L \in DOMAIN known_labels \cap DOMAIN parsed :
          \A i \in 0..(Len(parsed[L]) - 1) :
             /\ known_labels[L].address + i < Len(gen.binary)
             /\ gen.binary[known_labels[L].address + i + 1] = WordAt(L, i)

\* C2: when the scan meets a Label token B at the top level while A is the
\* last label and N instructions were parsed since A, B enters the label
\* table with address(A) + N and the counter is reset to 0; so the addresses
\* never decrease in definition order.
C2_LabelAddressCumulative ==
    [][(pstate = "scan" /\ pos < Len(keywords) /\ keywords[pos + 1].kind = "Label")
       => LET B == keywords[pos + 1].name
          IN /\ B \in DOMAIN known_labels'
             /\ known_labels'[B] = LabelDefinition(B, last_label.address
                                                        + instructions_since_label)
             /\ last_label' = known_labels'[B]
             /\ instructions_since_label' = 0
             /\ last_label'.address >= last_label.address]_vars

\* three instructions under "main" at 0 put the next label at 3
C2_Witness ==
    /\ pstate = "scan"
    /\ pos = 4
    /\ Len(keywords) >= 4
    /\ keywords[4] = K_Label("b")
    /\ {"main", "b"} \subseteq DOMAIN known_labels
    /\ known_labels["main"].address = 0
    /\ known_labels["b"].address = 3
    /\ last_label = LabelDefinition("b", 3)
    /\ instructions_since_label = 0

\* some instruction of the IR is a relative jump to a name that is no key of the table
HasUnresolvedJump ==
    \E L \in DOMAIN parsed :
       \E i \in 1..Len(parsed[L]) :
          /\ parsed[L][i].op = "Jump"
          /\ parsed[L][i].target.kind = "Label"
          /\ parsed[L][i].target.name \notin DOMAIN known_labels

\* C4: generator() returns UndefinedLabel exactly when the IR holds a relative
\* jump to a name that is no key of the label table, and then returns no
\* words at all; it never returns words for an IR with such a jump.
C4_UndefinedLabelIff ==
    Generated
    => /\ (gen.kind = "UndefinedLabel") <=> HasUnresolvedJump
       /\ gen.kind = "UndefinedLabel" => gen.binary = <<>>
       /\ gen.kind = "Ok" => ~HasUnresolvedJump

RECURSIVE SumOver(_, _)
SumOver(f, S) ==
    IF S = {} THEN 0
    ELSE LET x == CHOOSE y \in S : TRUE IN f[x] + SumOver(f, S \ {x})

\* the number of instructions the IR holds under each label
ListLength == [L \in DOMAIN parsed |-> Len(parsed[L])]

\* the number of instructions held under labels of a smaller address than L's
WordsBefore(L) ==
    SumOver(ListLength,
            {M \in DOMAIN parsed : known_labels[M].address < known_labels[L].address})

\* C10: on success the output is the concatenation, over the labels in
\* ascending address order, of the encodings of each label's instructions in
\* list order: one word per instruction of the IR, none skipped or repeated.
C10_OutputIsConcatenation ==
    gen.kind = "Ok"
    => /\ Len(gen.binary) = SumOver(ListLength, DOMAIN parsed)
       /\ \A L \in DOMAIN parsed :
             \A i \in 0..(Len(parsed[L]) - 1) :
                gen.binary[WordsBefore(L) + i + 1] = WordAt(L, i)

\* two labels with different instructions, the second label's word second
C10_Witness ==
    /\ gen.kind = "Ok"
    /\ keywords = <<K_Label("b"), K_Mmenonic("jr"), K_Label("a"), K_Label("a"),
                    K_Mmenonic("hlt")>>
    /\ known_labels["a"].address = 1
    /\ gen.binary = <<88, 127>>

(***************************************************************************)
(* Properties of the lexer (checked under SpecLex).                        *)
(***************************************************************************)
LexerDone == lexer_pc = "done"

\* C11: the lexer returns a token sequence only when no line produced a
\* lexical error: when at least one error was collected, the lexer has gone
\* on to the remaining lines and returns the collected errors, a non-empty
\* collection, and no token sequence.
C11_LexicalErrorsAbort ==
    LexerDone
    => /\ errors # <<>> => (lexer_out.kind = "Err" /\ lexer_out.errors = errors)
       /\ lexer_out.kind = "Err" => (lexer_out.errors # <<>> /\ lexer_out.lexed = <<>>)
       /\ lexer_out.kind = "Ok" => \A i \in 1..Len(lines) : lex_line(<<>>, lines[i]).ok

\* the value of each digit character
DigitValue ==
    [c \in {"0", "1", "2", "3", "4", "5", "6", "7", "8", "9",
            "a", "b", "c", "d", "e", "f", "A", "B", "C", "D", "E", "F"} |->
        CASE c = "0" -> 0 [] c = "1" -> 1 [] c = "2" -> 2 [] c = "3" -> 3 [] c = "4" -> 4
          [] c = "5" -> 5 [] c = "6" -> 6 [] c = "7" -> 7 [] c = "8" -> 8 [] c = "9" -> 9
          [] c \in {"a", "A"} -> 10 [] c \in {"b", "B"} -> 11 [] c \in {"c", "C"} -> 12
          [] c \in {"d", "D"} -> 13 [] c \in {"e", "E"} -> 14 [] c \in {"f", "F"} -> 15]

\* the parts of a numeral: an optional '-', an optional "0x" or "0b", the digits
NumeralNegative(word) == word # <<>> /\ Head(word) = "-"

NumeralUnsigned(word) == IF NumeralNegative(word) THEN Tail(word) ELSE word

NumeralRadix(word) ==
    IF starts_with(NumeralUnsigned(word), <<"0", "x">>) THEN 16
    ELSE IF starts_with(NumeralUnsigned(word), <<"0", "b">>) THEN 2
    ELSE 10

NumeralDigits(word) ==
    IF NumeralRadix(word) = 10 THEN NumeralUnsigned(word)
    ELSE SubSeq(NumeralUnsigned(word), 3, Len(NumeralUnsigned(word)))

IsNumeral(word) ==
    /\ NumeralDigits(word) # <<>>
    /\ \A i \in 1..Len(NumeralDigits(word)) :
          /\ NumeralDigits(word)[i] \in DOMAIN DigitValue
          /\ DigitValue[NumeralDigits(word)[i]] < NumeralRadix(word)

\* the number a digit string denotes in a radix
RECURSIVE Magnitude(_, _)
Magnitude(digits, radix) ==
    IF digits = <<>> THEN 0
    ELSE Magnitude(SubSeq(digits, 1, Len(digits) - 1), radix) * radix
             + DigitValue[digits[Len(digits)]]

\* the mathematical value of a numeral, reduced modulo 2^16
Wrapped16(word) ==
    LET m == Magnitude(NumeralDigits(word), NumeralRadix(word)) % U16
    IN IF NumeralNegative(word) THEN (U16 - m) % U16 ELSE m

\* the source is one line "    jr <word>", and the line has been lexed
LexedJump ==
    /\ Len(lines) = 1
    /\ starts_with(lines[1], ConstantLine(<<>>))
    /\ lexer_pc = "lines"
    /\ line_number = 1

\* the word of that line
JumpWord == strip_prefix(lines[1], ConstantLine(<<>>))

\* C13: an operand word that is a decimal, 0x-hexadecimal or 0b-binary numeral,
\* with or without a leading '-', is lexed to a Constant token whose value is
\* the value of the numeral modulo 2^16 and whose origin is the word.
C13_ConstantWraps ==
    (LexedJump /\ IsNumeral(JumpWord))
    => /\ errors = <<>>
       /\ lexed = <<K_Mmenonic("jr"), K_Constant(Join(JumpWord), Wrapped16(JumpWord))>>

\* C14: every token sequence the lexer returns ends with a Mnemonic hlt, also
\* the one of a source without any token.
C14_TokensEndWithHalt ==
    (LexerDone /\ lexer_out.kind = "Ok")
    => /\ lexer_out.lexed # <<>>
       /\ lexer_out.lexed[Len(lexer_out.lexed)] = K_Mmenonic("hlt")

(***************************************************************************)
(* Properties of the parser (checked under Spec).                          *)
(***************************************************************************)
\* C12: a label definition is immutable: once a name is in the label table,
\* no later step of the parse changes its address, whatever token is taken.
C12_LabelAddressImmutable ==
    [][\A name \in DOMAIN known_labels :
          /\ name \in DOMAIN known_labels'
          /\ known_labels'[name].address = known_labels[name].address]_vars

\* C15: the start label: a first token that is a Label is the start label, at
\* address 0; otherwise the start label is the synthetic "main" at address 0
\* and the first token is parsed as the first instruction recorded under
\* "main"; an empty token sequence gives EmptyStream.  The start label is not
\* changed afterwards.
C15_StartLabel ==
    [][/\ pstate = "start"
          => IF keywords = <<>>
             THEN pstate' = "err" /\ perror'.kind = "EmptyStream"
             ELSE IF keywords[1].kind = "Label"
             THEN /\ pstate' = "scan"
                  /\ start_label' = LabelDefinition(keywords[1].name, 0)
                  /\ known_labels' = [n \in {keywords[1].name} |-> start_label']
                  /\ parsed' = NoLabels
                  /\ pos' = 1
             ELSE pstate' = "scan"
                  => /\ start_label' = LabelDefinition("main", 0)
                     /\ known_labels' = [n \in {"main"} |-> start_label']
                     /\ parsed' = [n \in {"main"} |->
                                     <<try_parse_instruction(keywords[1], keywords, 1).value>>]
       /\ pstate # "start" => start_label' = start_label]_vars

\* the stream starts with an instruction: it is the first one under "main"
C15_Witness ==
    /\ pstate = "ok"
    /\ Len(keywords) >= 2
    /\ keywords[1] = K_Mmenonic("jr")
    /\ keywords[2] = K_Label("a")
    /\ start_label = LabelDefinition("main", 0)
    /\ "main" \in DOMAIN parsed
    /\ parsed["main"] # <<>>
    /\ parsed["main"][1] = Jump(JumpLabel("a"), "True")

\* C18: the parser stops at the first error: the error of the failing
\* instruction is what the parser returns, it is fixed by the tokens up to the
\* one the failing instruction took last, nothing happens afterwards and no IR
\* reaches the generator; an IR is returned only when every token has been
\* taken without an error.
C18_StopsAtFirstError ==
    [][/\ pstate = "err" => (pstate' = "err" /\ perror' = perror /\ pos' = pos /\ gen' = gen)
       /\ (pstate # "err" /\ pstate' = "err")
          => /\ pos' <= Len(keywords)
             /\ IF keywords = <<>> THEN perror'.kind = "EmptyStream"
                ELSE /\ perror' # NoError
                     /\ perror' = try_parse_instruction(keywords[pos + 1],
                                                        SubSeq(keywords, 1, pos'),
                                                        pos + 1).err
       /\ pstate' \in {"scan", "ok"} => perror' = NoError
       /\ pstate' = "ok" => pos' = Len(keywords)
       /\ gen'.kind # "none" => pstate' = "ok"]_vars

\* an instruction in the middle of the stream has failed
C18_Witness ==
    /\ pstate = "err"
    /\ perror.kind = "CouldNotParseArgument"
    /\ pos = 3
    /\ Len(keywords) = 5
    /\ gen = NoGen

(***************************************************************************)
(* Properties of the operand parsers (checked under SpecOperands).  The    *)
(* first token of a stream is a mnemonic; the step that leaves "start"     *)
(* parses the instruction it begins.                                       *)
(***************************************************************************)
\* the number of operands each mnemonic of the streams takes
Arity ==
    [name \in DOMAIN JmpMnemonics \cup DOMAIN JrMnemonics \cup {"inc", "mov", "hlt"} |->
        CASE name = "hlt" -> 0
          [] name = "mov" -> 2
          [] OTHER -> 1]

\* the register address of each valid character after "reg"
RegisterNumber ==
    [c \in {"0", "1", "2", "3", "4", "5", "6", "7", "A", "B", "C", "D", "E", "F", "G", "H"} |->
        CASE c \in {"0", "A"} -> 0 [] c \in {"1", "B"} -> 1 [] c \in {"2", "C"} -> 2
          [] c \in {"3", "D"} -> 3 [] c \in {"4", "E"} -> 4 [] c \in {"5", "F"} -> 5
          [] c \in {"6", "G"} -> 6 [] c \in {"7", "H"} -> 7]

\* a register token spelled "reg" and exactly one valid character
WellFormedRegister(keyword) ==
    /\ keyword.kind = "RegisterAddress"
    /\ Len(keyword.chars) = 4
    /\ SubSeq(keyword.chars, 1, 3) = <<"r", "e", "g">>
    /\ keyword.chars[4] \in DOMAIN RegisterNumber

\* a token that is no register, or a register token whose name does not start
\* with "reg" and a valid character
NoRegister(keyword) ==
    \/ keyword.kind # "RegisterAddress"
    \/ Len(keyword.chars) < 4
    \/ SubSeq(keyword.chars, 1, 3) # <<"r", "e", "g">>
    \/ keyword.chars[4] \notin DOMAIN RegisterNumber

\* a token that is an operand as the instruction takes it: a constant or a
\* label name for a relative jump, a register for the others
AcceptableOperand(name, keyword) ==
    IF name \in DOMAIN JrMnemonics THEN keyword.kind \in {"Constant", "Label"}
    ELSE WellFormedRegister(keyword)

\* the number of operands that follow the mnemonic at position 1
RECURSIVE OperandRun(_, _)
OperandRun(kws, i) ==
    IF i <= Len(kws) /\ AcceptableOperand(kws[1].name, kws[i])
    THEN 1 + OperandRun(kws, i + 1)
    ELSE 0

\* the first instruction has fewer operands than its arity: after them the
\* stream ends, or the token of a next instruction or of a label line follows
OperandAbsent ==
    LET n == OperandRun(keywords, 2)
    IN /\ n < Arity[keywords[1].name]
       /\ \/ Len(keywords) = 1 + n
          \/ keywords[2 + n].kind \in {"Mmenonic", "Label"}

\* C16: an instruction with fewer operand tokens than its arity fails with
\* MissingArgument naming the instruction, whether the stream ends after it
\* or a further mnemonic or label token follows; the following token is not
\* taken as the missing operand.
C16_MissingArgument ==
    [][(pstate = "start" /\ OperandAbsent)
       => /\ pstate' = "err"
          /\ perror'.kind = "MissingArgument"
          /\ perror'.command = keywords[1].name
          /\ pos' = 1 + OperandRun(keywords, 2)]_vars

\* the parser has recorded `instruction` as the first one, under "main"
FirstInstructionIs(instruction) ==
    /\ pstate' = "scan"
    /\ parsed' = [n \in {"main"} |-> <<instruction>>]

\* the parser has failed with CouldNotParseArgument for the first instruction
FirstCouldNotParse ==
    /\ pstate' = "err"
    /\ perror'.kind = "CouldNotParseArgument"
    /\ perror'.command = keywords[1].name

RegistersOf(instruction) ==
    CASE instruction.op \in UnaryOps -> {instruction.e.target, instruction.e.source_a}
      [] instruction.op = "Jump" /\ instruction.target.kind = "Register" ->
           {instruction.target.reg}
      [] OTHER -> {}

\* C19: the digit spelling reg<k> and the letter spelling reg<L>, L the k-th
\* letter of A..H, parse to the same register address k, and every register
\* address in the IR lies in 0..7.
C19_RegisterSpellings ==
    [][/\ (pstate = "start" /\ keywords[1].name = "inc" /\ Len(keywords) >= 2
             /\ WellFormedRegister(keywords[2]))
          => LET k == RegisterNumber[keywords[2].chars[4]]
             IN FirstInstructionIs(Instr1("Increment", UnaryExpression(k, k)))
       /\ (pstate = "start" /\ keywords[1].name = "mov" /\ Len(keywords) >= 3
             /\ WellFormedRegister(keywords[2]) /\ WellFormedRegister(keywords[3]))
          => FirstInstructionIs(
                 Instr1("Move", UnaryExpression(RegisterNumber[keywords[2].chars[4]],
                                                RegisterNumber[keywords[3].chars[4]])))
       /\ \A L \in DOMAIN parsed' :
             \A i \in 1..Len(parsed'[L]) : RegistersOf(parsed'[L][i]) \subseteq 0..7]_vars

\* reg5 and regF are the same register
C19_Witness ==
    /\ pstate = "ok"
    /\ keywords = <<K_Mmenonic("mov"), K_RegisterAddress(RegisterName(<<"5">>)),
                    K_RegisterAddress(RegisterName(<<"F">>))>>
    /\ parsed = [n \in {"main"} |-> <<Instr1("Move", UnaryExpression(5, 5))>>]

\* C20: a register operand is accepted only if the text after "reg" is exactly
\* one character out of 0..7 and A..H: once the parser has taken a register
\* token with any other name, it has failed at that token.
C20_RegisterSuffixValidated ==
    \A i \in 1..pos :
        (keywords[i].kind = "RegisterAddress" /\ ~WellFormedRegister(keywords[i]))
        => (pstate = "err" /\ pos = i)

(***************************************************************************)
(* Properties of the lexer's lines (checked under SpecLex).                *)
(***************************************************************************)
\* the line the next iteration of the loop reads
NextLine == lines[line_number + 1]

\* a line without its indentation and its trailing whitespace
Content(line) == trim_start(trim_end(line))

IsLabelLine(line) == Content(line) # <<>> /\ Content(line)[Len(Content(line))] = ":"

LabelText(line) == Join(SubSeq(Content(line), 1, Len(Content(line)) - 1))

\* C21: a line whose content, without indentation and trailing whitespace,
\* ends with ':' contributes exactly one token, the Label named by the text
\* before the ':', and no Mnemonic, whether the line is indented or not.
C21_LabelLineOneToken ==
    [][(LexerLine /\ keyword_buffer = <<>> /\ IsLabelLine(NextLine))
       => lexed' = Append(lexed, K_Label(LabelText(NextLine)))]_vars

\* the command names of the language
CommandNames ==
    DOMAIN BinaryMnemonics \cup DOMAIN UnaryMnemonics \cup DOMAIN JmpMnemonics
        \cup DOMAIN JrMnemonics
        \cup {"ldc", "add3", "inc", "dec", "tst", "s32b", "hlt", "nop", "st", "ld"}

IsInstructionLine(line) == trim_end(line) # <<>> /\ Head(trim_end(line)) \in {" ", "\t"}

\* the words of an instruction line: the command, then the operand words
Words(line) == split_whitespace(truncate_at_semicolon(Content(line)), <<>>)

\* the operand at position i is a bare command name, and the operands before
\* it are lexed without error
CommandInOperandPosition(line, i) ==
    /\ IsInstructionLine(line)
    /\ i \in 2..Len(Words(line))
    /\ Join(Words(line)[i]) \in CommandNames
    /\ \A j \in 2..(i - 1) :
          /\ word_type(Words(line)[j]).ok
          /\ Join(Words(line)[j]) \notin CommandNames

\* C22: when a word in operand position of an instruction line is a bare
\* command name, the lexer reports a command-after-command error for the line
\* and emits no token for the word.
C22_CommandAfterCommand ==
    [][\A i \in 2..(IF line_number < Len(lines) THEN Len(Words(NextLine)) ELSE 0) :
          (LexerLine /\ CommandInOperandPosition(NextLine, i))
          => /\ errors' = Append(errors, LexerError("CommandAfterCommand",
                                                    Join(Words(NextLine)[i])))
             /\ lexed' = lexed]_vars

\* the tokens of the first n lines, the lines that fail to lex left out
RECURSIVE TokensOfLines(_)
TokensOfLines(n) ==
    IF n = 0 THEN <<>>
    ELSE LET r == lex_line(<<>>, lines[n])
         IN TokensOfLines(n - 1) \o (IF r.ok THEN r.buffer ELSE <<>>)

\* C27: a line that fails to lex contributes no tokens, neither at once nor
\* when a later line is lexed: between two lines the token sequence holds the
\* tokens of the lines lexed without error, and the line buffer is empty.
C27_FailedLineLeavesNoTokens ==
    lexer_pc = "lines"
    => /\ lexed = TokensOfLines(line_number)
       /\ keyword_buffer = <<>>

(***************************************************************************)
(* Properties of the rendering of a word (checked under SpecEnc).          *)
(***************************************************************************)
\* the digits of lowercase hexadecimal
LowerHex == "0" :> 0 @@ "1" :> 1 @@ "2" :> 2 @@ "3" :> 3 @@ "4" :> 4 @@ "5" :> 5
            @@ "6" :> 6 @@ "7" :> 7 @@ "8" :> 8 @@ "9" :> 9 @@ "a" :> 10 @@ "b" :> 11
            @@ "c" :> 12 @@ "d" :> 13 @@ "e" :> 14 @@ "f" :> 15

\* the number a text denotes in hexadecimal, its first character most significant
RECURSIVE HexValue(_)
HexValue(text) ==
    IF text = <<>> THEN 0
    ELSE 16 * HexValue(SubSeq(text, 1, Len(text) - 1)) + LowerHex[text[Len(text)]]

\* the words of a state: the word buffer, and the word pushed
WordsRendered ==
    {instruction_word} \cup (IF enc_out.kind = "push" THEN {enc_out.word} ELSE {})

\* C24: every InstructionWord renders as exactly 5 characters out of 0-9a-f,
\* the nibble of bits 16..19 first and the nibble of bits 0..3 last: the
\* 20-bit value in zero-padded lowercase hexadecimal.
C24_RendersFiveHexDigits ==
    \A w \in WordsRendered :
        LET text == Display(w)
        IN /\ Len(text) = 5
           /\ \A k \in 1..5 : text[k] \in DOMAIN LowerHex
           /\ HexValue(text) = w
           /\ \A k \in 1..5 : LowerHex[text[k]] = Bits(w, 20 - 4 * k, 23 - 4 * k)

\* the Halt word has been pushed, and renders as "0007f"
C24_Witness ==
    /\ enc_pc = "done"
    /\ enc_instr = Halt
    /\ enc_out.kind = "push"
    /\ Join(Display(enc_out.word)) = "0007f"

(***************************************************************************)
(* Properties of main() (checked under SpecMain).                          *)
(***************************************************************************)
\* the source file was read without an I/O error
SourceRead ==
    /\ lexer_pc = "done"
    /\ \A i \in 1..Len(lexer_out.errors) : lexer_out.errors[i].kind # "IoError"

ParserDone == pstate \in {"ok", "err"}

\* the tokens, the IR and the words of the scenario
ScenarioTokens ==
    <<K_Label("main"), K_Mmenonic("ldc"), K_RegisterAddress(<<"r", "e", "g", "0">>),
      K_Constant("0x05", 5), K_Mmenonic("hlt")>>

\* 0x00085 (bit 7 set, bits 4..6 zero, low 4 bits 5, high 12 bits zero), and 0x0007F
ScenarioWords == <<133, 127>>

\* the source `source` lexes to the tokens of the scenario, parses to the one
\* label main at address 0 with [Load{register 0, Constant 5}, Halt], and
\* generates the two words
Scenario(source) ==
    lines = source
    => /\ SourceRead => lexer_out = LexerOk(ScenarioTokens)
       /\ ParserDone
          => /\ pstate = "ok"
             /\ DOMAIN known_labels = {"main"}
             /\ known_labels["main"] = LabelDefinition("main", 0)
             /\ start_label = LabelDefinition("main", 0)
             /\ DOMAIN parsed = {"main"}
             /\ parsed["main"] = <<Load(0, LoadConstant(5)), Halt>>
       /\ gen.kind # "none" => gen = GenOk(ScenarioWords)

\* "main:", "    ldc reg0 0x05", "    hlt"
ScenarioSource ==
    <<<<"m", "a", "i", "n", ":">>,
      <<" ", " ", " ", " ", "l", "d", "c", " ", "r", "e", "g", "0", " ", "0", "x", "0", "5">>,
      <<" ", " ", " ", " ", "h", "l", "t">>>>

\* "main:", "    ldc %reg0 0x05", "    hlt"
ScenarioSourceWithMarker ==
    <<<<"m", "a", "i", "n", ":">>,
      <<" ", " ", " ", " ", "l", "d", "c", " ", "%", "r", "e", "g", "0", " ", "0", "x", "0", "5">>,
      <<" ", " ", " ", " ", "h", "l", "t">>>>

\* C23 as stated: the source "main:", "    ldc reg0 0x05", "    hlt" lexes to
\* [Label main, Mnemonic ldc, RegisterOperand reg0, Constant 5, Mnemonic hlt],
\* parses to the label main at address 0 with [Load{register 0, Constant 5},
\* Halt], and generates exactly the words 0x00085 and 0x0007F.
C23_Scenario == Scenario(ScenarioSource)

\* C23, amended: the scenario holds of the source whose register operand
\* carries the register marker: "main:", "    ldc %reg0 0x05", "    hlt".
C23_ScenarioWithMarker == Scenario(ScenarioSourceWithMarker)

\* the source with the marker has been lexed, parsed, and the two words generated
C23_Witness ==
    /\ lines = ScenarioSourceWithMarker
    /\ lexer_out = LexerOk(ScenarioTokens)
    /\ pstate = "ok"
    /\ gen = GenOk(ScenarioWords)

\* the names the label lines of the source define
LabelLineNames ==
    {LabelText(lines[i]) : i \in {j \in 1..Len(lines) : IsLabelLine(lines[j])}}

\* an instruction line of a command without operands that holds a further word
SurplusOperand(line) ==
    /\ IsInstructionLine(line)
    /\ Len(Words(line)) > 1
    /\ Join(Words(line)[1]) \in {"nop", "hlt"}

\* C30: label definitions come only from label lines: a surplus operand after
\* a complete instruction adds no entry to the label table and starts no
\* instruction list, whether it is a bare identifier, a register or a
\* constant; the program is rejected with an error instead.
C30_LabelsOnlyFromLabelLines ==
    pstate \in {"scan", "ok", "err"}
    => /\ DOMAIN known_labels \subseteq LabelLineNames \cup {default_label.name}
       /\ DOMAIN parsed \subseteq LabelLineNames \cup {default_label.name}
       /\ (\E i \in 1..Len(lines) : SurplusOperand(lines[i])) => pstate # "ok"

\* the source is one instruction line `command` with register operands
RegisterProgram(command) ==
    /\ Len(lines) = 1
    /\ lines[1] \in RegisterLines
    /\ Join(Words(lines[1])[1]) = command

\* the number of register operands of that line
OperandCount == Len(Words(lines[1])) - 1

\* the register its operand i names: the character after "%reg"
OperandRegister(i) == RegisterNumber[Words(lines[1])[i + 1][5]]

\* the generator has returned two words: the instruction's and the closing hlt's
TwoWords == gen.kind = "Ok" /\ Len(gen.binary) = 2 /\ gen.binary[2] = ScenarioWords[2]

\* C25: 'st %X %Y' parses to StoreRAM{address_register X, data_register Y} and
\* is emitted with opcode 0x68, source-A = Y, source-B = X and target 0;
\* 'ld %T %A' parses to Load{target T, RAM addressed by A} and is emitted with
\* opcode 0x69, source-B = A, target = T and source-A = 0.
C25_RamAccessOperands ==
    /\ (RegisterProgram("st") /\ OperandCount = 2)
       => LET X == OperandRegister(1)
              Y == OperandRegister(2)
          IN /\ ParserDone => (pstate = "ok" /\ parsed["main"] = <<StoreRAM(X, Y), Halt>>)
             /\ gen.kind # "none"
                => /\ TwoWords
                   /\ Bits(gen.binary[1], 0, 7) = 104
                   /\ Bits(gen.binary[1], 8, 10) = Y
                   /\ Bits(gen.binary[1], 11, 13) = X
                   /\ Bits(gen.binary[1], 17, 19) = 0
    /\ (RegisterProgram("ld") /\ OperandCount = 2)
       => LET T == OperandRegister(1)
              A == OperandRegister(2)
          IN /\ ParserDone
                => (pstate = "ok" /\ parsed["main"] = <<Load(T, LoadRAM(A)), Halt>>)
             /\ gen.kind # "none"
                => /\ TwoWords
                   /\ Bits(gen.binary[1], 0, 7) = 105
                   /\ Bits(gen.binary[1], 11, 13) = A
                   /\ Bits(gen.binary[1], 17, 19) = T
                   /\ Bits(gen.binary[1], 8, 10) = 0

\* "    st %regC %reg5" has been assembled, a line with different registers
\* in the two positions
C25_Witness ==
    /\ RegisterProgram("st")
    /\ OperandCount = 2
    /\ OperandRegister(1) = 2
    /\ OperandRegister(2) = 5
    /\ TwoWords

\* C26: 'inc %R' and 'dec %R' take exactly one register operand, so that a
\* second one is no part of the instruction, and give Increment / Decrement
\* with target = source = R; the word has opcode 0x5 / 0x6 and R in both the
\* source-A field and the target field.
C26_IncDecOperand ==
    \A command \in {"inc", "dec"} :
        RegisterProgram(command)
        => LET R == OperandRegister(1)
               variant == IF command = "inc" THEN "Increment" ELSE "Decrement"
           IN IF OperandCount = 1
              THEN /\ ParserDone
                      => /\ pstate = "ok"
                         /\ parsed["main"] = <<Instr1(variant, UnaryExpression(R, R)), Halt>>
                   /\ gen.kind # "none"
                      => /\ TwoWords
                         /\ Bits(gen.binary[1], 0, 7) = (IF command = "inc" THEN 5 ELSE 6)
                         /\ Bits(gen.binary[1], 8, 10) = R
                         /\ Bits(gen.binary[1], 17, 19) = R
              ELSE ParserDone
                   => /\ pstate = "err"
                      /\ perror.kind = "UnknownCommand"
                      /\ pos = 3

\* "    dec %regD" has been assembled
C26_Witness ==
    /\ RegisterProgram("dec")
    /\ OperandCount = 1
    /\ OperandRegister(1) = 3
    /\ TwoWords

(***************************************************************************)
(* Properties of the IR and of its generation (checked under Spec).        *)
(***************************************************************************)
\* C28: in every IR the parser returns, start_label is a key of the label
\* table with address 0, and every key of the instruction map is a key of the
\* label table.
C28_IrWellFormed ==
    pstate = "ok"
    => /\ start_label.name \in DOMAIN known_labels
       /\ known_labels[start_label.name].address = 0
       /\ DOMAIN parsed \subseteq DOMAIN known_labels

\* the words, or the error, generator() gives when the hash map yields the
\* labels in the order `labels`
GeneratedIn(labels) == generator(parsed, known_labels, labels, overflow_checks)

\* the labels of an address that hold at least one instruction
NonEmptyAt(address) ==
    {L \in DOMAIN parsed : known_labels[L].address = address /\ parsed[L] # <<>>}

\* C29: for an IR the parser returned, the generator's result is the same for
\* every iteration order of the label hash map, also when several labels
\* share an address: among the labels of one address at most one has a
\* non-empty instruction list.
C29_GeneratorDeterministic ==
    pstate = "ok"
    => LET orders == label_orders(known_labels)
           one == GeneratedIn(CHOOSE labels \in orders : TRUE)
       IN /\ \A labels \in orders : GeneratedIn(labels) = one
          /\ gen.kind # "none" => gen = one
          /\ \A L \in DOMAIN known_labels :
                Cardinality(NonEmptyAt(known_labels[L].address)) <= 1

\* words were generated from an IR whose labels a and b share an address, so
\* that the hash map's order decides which of them the generator visits first
C29_Witness ==
    /\ gen.kind = "Ok"
    /\ gen.binary # <<>>
    /\ {"a", "b"} \subseteq DOMAIN known_labels
    /\ known_labels["a"].address = known_labels["b"].address
    /\ Cardinality(label_orders(known_labels)) >= 2

====
